---- MODULE Spec2Model ----
(***************************************************************************)
(* Arithmetic expression evaluator (compute-mcp): grammar, parser, AST,    *)
(* evaluator, Expression value type and batch evaluator of src/src/lib.rs. *)
(*                                                                         *)
(* Text is a sequence of one-character strings.  An f64 is modelled bit for *)
(* bit: sign, class (finite, infinite, NaN) and, when finite, the odd       *)
(* mantissa and the binary exponent of its value; the arithmetic rounds to  *)
(* the nearest f64, ties to even, as IEEE 754 does.                         *)
(***************************************************************************)
EXTENDS Integers, Sequences, FiniteSets, TLC

\* ------------------------------------------------------------------ bounds
\* longest text typed character by character
MaxLen == 5
\* longest numeric-looking text typed character by character
MaxLit == 5
\* longest mostly-blank text typed character by character
MaxBlank == 4
\* longest text with white space among its tokens
MaxSpace == 5
\* longest text typed character by character before it is printed back
MaxPrint == 4
\* most strings given to one batch command
MaxArgs == 3
\* most calculations the stdio server records in one run
MaxRecorded == 103
\* longest text composed from operands, operators, parentheses and minus signs
MaxGen == 7
\* most nodes of the ASTs built directly
MaxNodes == 7
\* most expressions of a batch
MaxBatch == 3
\* the longest text of SpecPhase
MaxPhase == 5
\* most lines the stdio server reads
MaxLines == 3
\* most lines the REPL reads
MaxRepl == 4
\* most lines of stdin given to the batch command
MaxStdin == 2

\* ---------------------------------------------------------------- alphabet
Digits == {"0", "1", "2", "3", "4", "5", "6", "7", "8", "9"}

\* WHITESPACE of the grammar: space, tab, newline, carriage return
WHITESPACE == {" ", "\t", "\n", "\r"}

\* str::trim() strips Unicode White_Space, which has more than the grammar's
\* four characters; form feed stands for the extra ones
TrimSpace == WHITESPACE \cup {"\f"}

\* the characters typed into a free text; "e" stands for every character the
\* grammar has no use for
Alphabet == {"1", ".", "+", "-", "*", "/", "(", ")", " ", "e"}

\* the characters typed into a text of operands, operators and parentheses
OpsAlphabet == {"0", "1", "+", "-", "*", "/", "(", ")"}

\* the characters typed into a text with white space of every kind among
\* its tokens
SpaceAlphabet == {" ", "\t", "\n", "\r", "1", "0", "/", "-"}

\* the characters typed into a text that is mostly white space
BlankAlphabet == {" ", "\t", "\n", "\r", "\f", "1", "+"}

\* the characters typed into a numeric-looking text
LiteralAlphabet == {"0", "1", "5", ".", "e", "x", "b", ",", "-"}

\* the operand literals and operators expressions are composed from
Operands == {<<"1">>, <<"2">>, <<"3">>}
Operators == {"+", "-", "*", "/"}

\* the characters of SpecPhase: a division by zero, a minus, parentheses
PhaseAlphabet == {"0", "1", "/", "-", "(", ")", " "}

\* the strings given to the batch command or the batch tool: values, a
\* division by zero, a text the grammar rejects, an empty string and a blank
\* one
ArgPool == {<<"2", "+", "3">>, <<"5", "/", "0">>, <<"3", "*", "4">>, <<"2", "+">>,
            <<>>, <<" ">>}

\* the texts batches are filled from: a value, a division by zero and a text
\* the grammar rejects
BatchPool == {<<"2", "+", "3">>, <<"5", "/", "0">>, <<"2", "+">>}

\* ------------------------------------------------------------- results
Ok(v)  == [kind |-> "Ok", val |-> v]
Err(k) == [kind |-> k]
IsOk(r) == r.kind = "Ok"

At(t, p) == IF p >= 1 /\ p <= Len(t) THEN t[p] ELSE "EOI"

\* ASCII_DIGIT*: the position after the longest run of digits from p
DigitsEnd(t, p) ==
    CHOOSE q \in p..(Len(t) + 1) :
        /\ \A i \in p..(q - 1) : t[i] \in Digits
        /\ At(t, q) \notin Digits

\* ----------------------------------------------------- natural numbers
\* A natural number of any size is the sequence of its digits in base 2^15,
\* lowest first, without a zero at the top; zero is the empty sequence.
\* Operations on the digits lo..hi do one half and then the other, handing
\* the carry over.
LimbBits == 15
Base == 32768
Pow2Table == <<1, 2, 4, 8, 16, 32, 64, 128, 256, 512, 1024, 2048, 4096, 8192,
               16384, 32768>>
Pow2(k) == Pow2Table[k + 1]

Abs(i) == IF i < 0 THEN -i ELSE i
Max(a, b) == IF a > b THEN a ELSE b
Min(a, b) == IF a < b THEN a ELSE b

First(a) == IF a = <<>> THEN 0 ELSE a[1]
Limb(a, i) == IF i <= Len(a) THEN a[i] ELSE 0

\* a without the zeros at its top
BTrim(a) ==
    IF a = <<>> \/ a[Len(a)] # 0 THEN a
    ELSE IF \A i \in 1..Len(a) : a[i] = 0 THEN <<>>
    ELSE SubSeq(a, 1, CHOOSE k \in 1..Len(a) :
                          a[k] # 0 /\ \A j \in (k + 1)..Len(a) : a[j] = 0)

RECURSIVE BFromInt(_)
BFromInt(k) == IF k = 0 THEN <<>> ELSE <<k % Base>> \o BFromInt(k \div Base)

\* digits and carry of a low half followed by a high half
Join(low, high) == [q |-> low.q \o high.q, c |-> high.c]
WithCarry(x) == IF x.c = 0 THEN x.q ELSE x.q \o <<x.c>>

RECURSIVE BAddRange(_, _, _, _, _)
BAddHigh(a, b, mid, hi, low) == Join(low, BAddRange(a, b, mid + 1, hi, low.c))
BAddDigit(s) == [q |-> <<s % Base>>, c |-> s \div Base]
BAddRange(a, b, lo, hi, c) ==
    IF lo = hi THEN BAddDigit(Limb(a, lo) + Limb(b, lo) + c)
    ELSE BAddHigh(a, b, (lo + hi) \div 2, hi, BAddRange(a, b, lo, (lo + hi) \div 2, c))
BAdd(a, b) ==
    IF b = <<>> THEN a ELSE IF a = <<>> THEN b
    ELSE WithCarry(BAddRange(a, b, 1, Max(Len(a), Len(b)), 0))

\* a - b for a >= b
RECURSIVE BSubRange(_, _, _, _, _)
BSubHigh(a, b, mid, hi, low) == Join(low, BSubRange(a, b, mid + 1, hi, low.c))
BSubDigit(d) == IF d < 0 THEN [q |-> <<d + Base>>, c |-> 1] ELSE [q |-> <<d>>, c |-> 0]
BSubRange(a, b, lo, hi, c) ==
    IF lo = hi THEN BSubDigit(Limb(a, lo) - Limb(b, lo) - c)
    ELSE BSubHigh(a, b, (lo + hi) \div 2, hi, BSubRange(a, b, lo, (lo + hi) \div 2, c))
BSub(a, b) == IF b = <<>> THEN a ELSE BTrim(BSubRange(a, b, 1, Len(a), 0).q)

BLess(a, b) ==
    \/ Len(a) < Len(b)
    \/ /\ Len(a) = Len(b)
       /\ \E i \in 1..Len(a) : /\ a[i] < b[i]
                               /\ \A j \in (i + 1)..Len(a) : a[j] = b[j]

\* a * k for k < 2^15
RECURSIVE BMulSmallRange(_, _, _, _, _)
BMulSmallHigh(a, k, mid, hi, low) == Join(low, BMulSmallRange(a, k, mid + 1, hi, low.c))
BMulSmallRange(a, k, lo, hi, c) ==
    IF lo = hi THEN BAddDigit(a[lo] * k + c)
    ELSE BMulSmallHigh(a, k, (lo + hi) \div 2, hi,
                       BMulSmallRange(a, k, lo, (lo + hi) \div 2, c))
BMulSmall(a, k) ==
    IF k = 0 \/ a = <<>> THEN <<>> ELSE IF k = 1 THEN a
    ELSE WithCarry(BMulSmallRange(a, k, 1, Len(a), 0))

ShiftLimbs(a, j) == IF a = <<>> THEN <<>> ELSE [i \in 1..j |-> 0] \o a
DropLimbs(a, j) == IF j >= Len(a) THEN <<>> ELSE SubSeq(a, j + 1, Len(a))

\* a times the digits lo..hi of b
RECURSIVE BMulRange(_, _, _, _)
BMulRange(a, b, lo, hi) ==
    IF lo = hi THEN ShiftLimbs(BMulSmall(a, b[lo]), lo - 1)
    ELSE BAdd(BMulRange(a, b, lo, (lo + hi) \div 2),
              BMulRange(a, b, (lo + hi) \div 2 + 1, hi))
BMul(a, b) == IF a = <<>> \/ b = <<>> THEN <<>> ELSE BMulRange(a, b, 1, Len(b))

\* quotient digits lo..hi and remainder of a by d < 2^15, from the top, c the
\* remainder carried down
RECURSIVE BDivSmallRange(_, _, _, _, _)
\* the quotient digits come highest first
BDivSmallJoin(low, high) == [q |-> high.q \o low.q, c |-> low.c]
Reverse(s) == [i \in 1..Len(s) |-> s[Len(s) + 1 - i]]
BDivSmallBelow(a, d, lo, mid, high) ==
    BDivSmallJoin(BDivSmallRange(a, d, lo, mid, high.c), high)
BDivSmallDigit(d, cur) == [q |-> <<cur \div d>>, c |-> cur % d]
BDivSmallRange(a, d, lo, hi, c) ==
    IF lo = hi THEN BDivSmallDigit(d, c * Base + a[lo])
    ELSE BDivSmallBelow(a, d, lo, (lo + hi) \div 2,
                        BDivSmallRange(a, d, (lo + hi) \div 2 + 1, hi, c))
BDivSmall(a, d) ==
    IF d = 1 \/ a = <<>> THEN a ELSE BTrim(Reverse(BDivSmallRange(a, d, 1, Len(a), 0).q))
BModSmall(a, d) == IF a = <<>> THEN 0 ELSE BDivSmallRange(a, d, 1, Len(a), 0).c

\* a * 2^k and the whole part of a / 2^k
BShl(a, k) == ShiftLimbs(BMulSmall(a, Pow2(k % LimbBits)), k \div LimbBits)
BShr(a, k) == BDivSmall(DropLimbs(a, k \div LimbBits), Pow2(k % LimbBits))

\* the number of bits of a
BitLenSmall(x) == CHOOSE k \in 1..LimbBits : Pow2(k) > x /\ Pow2(k - 1) <= x
BitLen(a) ==
    IF a = <<>> THEN 0 ELSE (Len(a) - 1) * LimbBits + BitLenSmall(a[Len(a)])

\* bit i of a, bit 0 the lowest
BitAt(a, i) ==
    IF i \div LimbBits + 1 > Len(a) THEN 0
    ELSE (a[i \div LimbBits + 1] \div Pow2(i % LimbBits)) % 2

\* the number of zero bits below the lowest one bit of a # 0
LowLimb(a) == CHOOSE j \in 1..Len(a) : a[j] # 0 /\ \A i \in 1..(j - 1) : a[i] = 0
LowBit(x) == CHOOSE k \in 0..(LimbBits - 1) : x % Pow2(k + 1) = Pow2(k)
TrailingZeros(a) == (LowLimb(a) - 1) * LimbBits + LowBit(a[LowLimb(a)])

\* the digit q of the quotient cur / d, found bit by bit from the top
RECURSIVE QuotDigit(_, _, _, _)
QuotDigit(cur, d, q, b) ==
    IF b < 0 THEN q
    ELSE IF BLess(cur, BMulSmall(d, q + Pow2(b))) THEN QuotDigit(cur, d, q, b - 1)
    ELSE QuotDigit(cur, d, q + Pow2(b), b - 1)

\* quotient digits lo..hi and remainder of a by d, from the top, c the
\* remainder carried down
RECURSIVE BDivRange(_, _, _, _, _)
BDivBelow(a, d, lo, mid, high) == BDivSmallJoin(BDivRange(a, d, lo, mid, high.c), high)
BDivStep(d, cur, q) == [q |-> <<q>>, c |-> BSub(cur, BMulSmall(d, q))]
BDivDigit(d, cur) ==
    BDivStep(d, cur, IF BLess(cur, d) THEN 0 ELSE QuotDigit(cur, d, 0, LimbBits - 1))
BDivRange(a, d, lo, hi, c) ==
    IF lo = hi THEN BDivDigit(d, BTrim(<<a[lo]>> \o c))
    ELSE BDivBelow(a, d, lo, (lo + hi) \div 2,
                   BDivRange(a, d, (lo + hi) \div 2 + 1, hi, c))
\* quotient and remainder of a by d # 0
BDivTrim(x) == [q |-> BTrim(Reverse(x.q)), r |-> x.c]
BDivMod(a, d) ==
    IF a = <<>> THEN [q |-> <<>>, r |-> <<>>]
    ELSE IF Len(d) = 1
    THEN [q |-> BDivSmall(a, d[1]), r |-> BFromInt(BModSmall(a, d[1]))]
    ELSE BDivTrim(BDivRange(a, d, 1, Len(a), <<>>))

BSquare(a) == BMul(a, a)
RECURSIVE BPow(_, _)
BPow(b, p) ==
    IF p = 0 THEN <<1>>
    ELSE IF p % 2 = 0 THEN BSquare(BPow(b, p \div 2))
    ELSE BMulSmall(BSquare(BPow(b, p \div 2)), b)

\* ------------------------------------------------------------ f64 numbers
\* An f64 is its class and sign and, when finite, the odd natural number m
\* and the exponent e with |value| = m * 2^e (m = 0, e = 0 for a zero): every
\* f64 has one representation, so that = on them is the identity of f64
\* values, with +0.0 and -0.0 apart and one NaN.
MantissaBits == 53
MinExponent == -1074
MaxBinaryDigits == 1024

Fin(neg, m, e) == [cls |-> "fin", neg |-> neg, m |-> m, e |-> e]
Inf(neg) == [cls |-> "inf", neg |-> neg, m |-> <<>>, e |-> 0]
NaN == [cls |-> "nan", neg |-> FALSE, m |-> <<>>, e |-> 0]
FZero(neg) == Fin(neg, <<>>, 0)
Zero == FZero(FALSE)
Infinity == Inf(FALSE)

IsNaN(a) == a.cls = "nan"
IsInf(a) == a.cls = "inf"
\* a == 0.0, true of +0.0 and of -0.0
IsZero(a) == a.cls = "fin" /\ a.m = <<>>

\* q * 2^t for a q of at most 53 bits: infinite past f64::MAX
Strip(neg, q, t, tz) == Fin(neg, BShr(q, tz), t + tz)
Normal(neg, q, t) ==
    IF q = <<>> THEN FZero(neg)
    ELSE IF BitLen(q) + t > MaxBinaryDigits THEN Inf(neg)
    ELSE Strip(neg, q, t, TrailingZeros(q))

\* N * 2^E rounded to a multiple of 2^t, t > E: to the nearest, a tie to the
\* even one
RoundBits(neg, N, E, t) ==
    Normal(neg,
           IF /\ BitAt(N, t - E - 1) = 1
              /\ TrailingZeros(N) < t - E - 1 \/ BitAt(N, t - E) = 1
           THEN BAdd(BShr(N, t - E), <<1>>) ELSE BShr(N, t - E),
           t)
Quantum(neg, N, E, t) == IF t <= E THEN Normal(neg, N, E) ELSE RoundBits(neg, N, E, t)
\* the f64 nearest to N * 2^E: 53 bits, fewer below the smallest normal
Round(neg, N, E) ==
    IF N = <<>> THEN FZero(neg)
    ELSE Quantum(neg, N, E, Max(BitLen(N) + E - MantissaBits, MinExponent))

\* the f64 nearest to n / d: the quotient to 55 bits or more and one bit
\* more that says whether anything was left
Sticky(qr) == BAdd(BShl(qr.q, 1), IF qr.r = <<>> THEN <<>> ELSE <<1>>)
RoundQuotientBy(neg, n, d, E, k) == Round(neg, Sticky(BDivMod(BShl(n, k), d)), E - k - 1)
RoundQuotient(neg, n, d, E) ==
    RoundQuotientBy(neg, n, d, E, Max(0, MantissaBits + 2 + BitLen(d) - BitLen(n)))

FNeg(a) == IF IsNaN(a) THEN NaN ELSE [a EXCEPT !.neg = ~a.neg]

AddAligned(an, A, bn, B, e) ==
    IF an = bn THEN Round(an, BAdd(A, B), e)
    ELSE IF A = B THEN Zero
    ELSE IF BLess(A, B) THEN Round(bn, BSub(B, A), e)
    ELSE Round(an, BSub(A, B), e)
AddFinite(a, b, e) ==
    AddAligned(a.neg, BShl(a.m, a.e - e), b.neg, BShl(b.m, b.e - e), e)
\* a + b of f64
FAdd(a, b) ==
    IF IsNaN(a) \/ IsNaN(b) THEN NaN
    ELSE IF IsInf(a) THEN (IF IsInf(b) /\ a.neg # b.neg THEN NaN ELSE a)
    ELSE IF IsInf(b) THEN b
    ELSE IF IsZero(a) /\ IsZero(b) THEN FZero(a.neg /\ b.neg)
    ELSE IF IsZero(a) THEN b
    ELSE IF IsZero(b) THEN a
    ELSE AddFinite(a, b, Min(a.e, b.e))
\* a - b of f64
FSub(a, b) == FAdd(a, FNeg(b))
\* a * b of f64
FMul(a, b) ==
    IF IsNaN(a) \/ IsNaN(b) THEN NaN
    ELSE IF IsInf(a) \/ IsInf(b)
         THEN (IF IsZero(a) \/ IsZero(b) THEN NaN ELSE Inf(a.neg # b.neg))
    ELSE IF IsZero(a) \/ IsZero(b) THEN FZero(a.neg # b.neg)
    ELSE Round(a.neg # b.neg, BMul(a.m, b.m), a.e + b.e)
\* a / b of f64
FDiv(a, b) ==
    IF IsNaN(a) \/ IsNaN(b) THEN NaN
    ELSE IF IsInf(a) THEN (IF IsInf(b) THEN NaN ELSE Inf(a.neg # b.neg))
    ELSE IF IsInf(b) THEN FZero(a.neg # b.neg)
    ELSE IF IsZero(b) THEN (IF IsZero(a) THEN NaN ELSE Inf(a.neg # b.neg))
    ELSE IF IsZero(a) THEN FZero(a.neg # b.neg)
    ELSE IF b.m = <<1>> THEN Round(a.neg # b.neg, a.m, a.e - b.e)
    ELSE RoundQuotient(a.neg # b.neg, a.m, b.m, a.e - b.e)

\* the f64 of a small integer
F64(i) == Round(i < 0, BFromInt(Abs(i)), 0)

\* ------------------------------------------------- str::parse::<f64>
DigitVal(c) ==
    CASE c = "0" -> 0 [] c = "1" -> 1 [] c = "2" -> 2 [] c = "3" -> 3
      [] c = "4" -> 4 [] c = "5" -> 5 [] c = "6" -> 6 [] c = "7" -> 7
      [] c = "8" -> 8 [] c = "9" -> 9

\* value of a run of at most nine digits read as a decimal integer
RECURSIVE DigitsVal(_)
DigitsVal(s) ==
    IF s = <<>> THEN 0
    ELSE 10 * DigitsVal(SubSeq(s, 1, Len(s) - 1)) + DigitVal(s[Len(s)])

\* the number of zeros a run of digits starts with, and ends with
LeadingZeros(s) ==
    CHOOSE k \in 0..Len(s) :
        /\ \A i \in 1..k : s[i] = "0"
        /\ k < Len(s) => s[k + 1] # "0"
EndingZeros(s) ==
    CHOOSE k \in 0..Len(s) :
        /\ \A i \in (Len(s) - k + 1)..Len(s) : s[i] = "0"
        /\ k < Len(s) => s[Len(s) - k] # "0"

\* the natural number a run of digits denotes, halves first
RECURSIVE BFromDigits(_)
BFromDigits(s) ==
    IF Len(s) <= 4 THEN BFromInt(DigitsVal(s))
    ELSE BAdd(BMul(BFromDigits(SubSeq(s, 1, Len(s) \div 2)),
                   BPow(10, Len(s) - Len(s) \div 2)),
              BFromDigits(SubSeq(s, Len(s) \div 2 + 1, Len(s))))

\* 10^309 is above f64::MAX, 10^-324 rounds to zero
F64MaxDigits == 309
F64MinDigits == -324
\* the digits of an exponent are added while its value is below this (0x10000)
ExponentStop == 65536

\* the f64 nearest to sig * 10^p, sig digits without zeros at either end
DecimalToF64(neg, sig, p) ==
    IF sig = <<>> THEN FZero(neg)
    ELSE IF Len(sig) + p > F64MaxDigits THEN Inf(neg)
    ELSE IF Len(sig) + p < F64MinDigits THEN FZero(neg)
    ELSE IF p >= 0 THEN Round(neg, BMul(BFromDigits(sig), BPow(10, p)), 0)
    ELSE RoundQuotient(neg, BFromDigits(sig), BPow(10, -p), 0)

\* digits with the zeros of both ends dropped, the exponent raised by the
\* zeros dropped at the end
SigDigits(ds) ==
    IF LeadingZeros(ds) = Len(ds) THEN <<>>
    ELSE SubSeq(ds, LeadingZeros(ds) + 1, Len(ds) - EndingZeros(ds))
ParseDecimal(neg, ds, p) ==
    DecimalToF64(neg, SigDigits(ds),
                 IF SigDigits(ds) = <<>> THEN 0 ELSE p + EndingZeros(ds))

\* the value of the digits of an exponent: each digit is added while the
\* value read so far is below ExponentStop, and passed over after that
RECURSIVE ExponentVal(_)
ExponentVal(ds) ==
    IF ds = <<>> THEN 0
    ELSE LET exp_num == ExponentVal(SubSeq(ds, 1, Len(ds) - 1))
         IN  IF exp_num < ExponentStop THEN 10 * exp_num + DigitVal(ds[Len(ds)])
             ELSE exp_num

AsciiLower(c) ==
    CASE c = "I" -> "i" [] c = "N" -> "n" [] c = "F" -> "f" [] c = "T" -> "t"
      [] c = "Y" -> "y" [] c = "A" -> "a" [] c = "E" -> "e" [] OTHER -> c
Lower(s) == [i \in 1..Len(s) |-> AsciiLower(s[i])]

\* Number ::= ( Digit+ | Digit+ '.' Digit* | Digit* '.' Digit+ ) Exp?
\* Exp ::= 'e' Sign? Digit+ ; i the end of the whole digits, j the end of
\* the fraction, k the start of the digits of the exponent
ParseExp(neg, b, i, j, k) ==
    IF j = Len(b) + 1
    THEN Ok(ParseDecimal(neg, SubSeq(b, 1, i - 1) \o SubSeq(b, i + 1, j - 1),
                         -Len(SubSeq(b, i + 1, j - 1))))
    ELSE IF At(b, j) \notin {"e", "E"} \/ k > Len(b) \/ DigitsEnd(b, k) # Len(b) + 1
    THEN Err("ParseFloatError")
    ELSE Ok(ParseDecimal(neg, SubSeq(b, 1, i - 1) \o SubSeq(b, i + 1, j - 1),
                         (IF At(b, j + 1) = "-" THEN -ExponentVal(SubSeq(b, k, Len(b)))
                          ELSE ExponentVal(SubSeq(b, k, Len(b))))
                         - Len(SubSeq(b, i + 1, j - 1))))
ParseFraction(neg, b, i, j) ==
    IF (i - 1) + Len(SubSeq(b, i + 1, j - 1)) = 0 THEN Err("ParseFloatError")
    ELSE ParseExp(neg, b, i, j, IF At(b, j + 1) \in {"+", "-"} THEN j + 2 ELSE j + 1)
ParseNumber(neg, b, i) ==
    ParseFraction(neg, b, i, IF At(b, i) = "." THEN DigitsEnd(b, i + 1) ELSE i)

ParseUnsigned(neg, b) ==
    IF Lower(b) \in {<<"i", "n", "f">>, <<"i", "n", "f", "i", "n", "i", "t", "y">>}
    THEN Ok(Inf(neg))
    ELSE IF Lower(b) = <<"n", "a", "n">> THEN Ok(NaN)
    ELSE ParseNumber(neg, b, DigitsEnd(b, 1))

\* str::parse::<f64>
ParseFloat(s) ==
    IF s # <<>> /\ s[1] \in {"+", "-"} THEN ParseUnsigned(s[1] = "-", Tail(s))
    ELSE ParseUnsigned(FALSE, s)

\* the Number leaves of the ASTs built directly
Leaves == {F64(0), F64(1), F64(2)}

\* ------------------------------------------------------------------- AST
Number(n) == [tag |-> "Number", n |-> n]
Add(l, r) == [tag |-> "Add", left |-> l, right |-> r]
Sub(l, r) == [tag |-> "Sub", left |-> l, right |-> r]
Mul(l, r) == [tag |-> "Mul", left |-> l, right |-> r]
Div(l, r) == [tag |-> "Div", left |-> l, right |-> r]
Neg(e)    == [tag |-> "Neg", expr |-> e]

\* the decimal digit of a value below ten
DigitChar(i) == CHOOSE c \in Digits : DigitVal(c) = i

\* the decimal digits of a natural number
RECURSIVE IntText(_)
IntText(n) ==
    IF n < 10 THEN <<DigitChar(n)>> ELSE IntText(n \div 10) \o <<DigitChar(n % 10)>>

\* the four digits of a number below 10000
FourDigits(n) ==
    <<DigitChar(n \div 1000), DigitChar((n \div 100) % 10),
      DigitChar((n \div 10) % 10), DigitChar(n % 10)>>

Zeros(k) == [i \in 1..k |-> "0"]

\* the 4 * w decimal digits of N < 10000^w: four at a time when they are
\* few, halves first when they are many
LinearGroups == 16
RECURSIVE BToDigitsWide(_, _)
BToDigitsHalves(qr, w) == BToDigitsWide(qr.q, w - w \div 2) \o BToDigitsWide(qr.r, w \div 2)
BToDigitsWide(N, w) ==
    IF N = <<>> THEN Zeros(4 * w)
    ELSE IF w = 1 THEN FourDigits(First(N))
    ELSE IF w <= LinearGroups
    THEN BToDigitsWide(BDivSmall(N, 10000), w - 1) \o FourDigits(BModSmall(N, 10000))
    ELSE BToDigitsHalves(BDivMod(N, BPow(10000, w \div 2)), w)

\* the decimal digits of a natural number of any size: a number of b bits
\* has at most b * 0.30103 + 1 digits
Unpadded(ds) == SubSeq(ds, Min(LeadingZeros(ds), Len(ds) - 1) + 1, Len(ds))
BToDigits(N) ==
    IF Len(N) <= 1 THEN IntText(First(N))
    ELSE Unpadded(BToDigitsWide(N, (BitLen(N) * 30103) \div 400000 + 1))

SignText(n) == IF n.neg THEN <<"-">> ELSE <<>>

\* x < y of the numbers two runs of digits denote
DecLessSig(x, y) ==
    \/ Len(x) < Len(y)
    \/ /\ Len(x) = Len(y)
       /\ \E i \in 1..Len(x) : /\ DigitVal(x[i]) < DigitVal(y[i])
                               /\ \A j \in 1..(i - 1) : x[j] = y[j]
Significant(x) == SubSeq(x, LeadingZeros(x) + 1, Len(x))
DecLess(x, y) == DecLessSig(Significant(x), Significant(y))
DecEqual(x, y) == Significant(x) = Significant(y)

\* 99..9 minus a run of digits, and a run of digits plus one
NinesMinus(ds) == [i \in 1..Len(ds) |-> DigitChar(9 - DigitVal(ds[i]))]
DecInc(ds) ==
    IF \A i \in 1..Len(ds) : ds[i] = "9" THEN <<"1">> \o Zeros(Len(ds))
    ELSE [i \in 1..Len(ds) |->
            IF \A j \in i..Len(ds) : ds[j] = "9" THEN "0"
            ELSE IF \A j \in (i + 1)..Len(ds) : ds[j] = "9"
            THEN DigitChar(DigitVal(ds[i]) + 1) ELSE ds[i]]

\* the exponent of the unit in the last place of a finite n # 0
UlpExponent(n) == Max(BitLen(n.m) + n.e - MantissaBits, MinExponent)
\* the decimal places that hold n, half its unit and a quarter of it
DecimalScale(n) == Max(0, 2 - UlpExponent(n))
\* |n| * 10^s as digits
ScaledDigits(n, s) == BToDigits(BShl(BMul(n.m, BPow(5, s)), n.e + s))
\* half the gap to the next f64 above, times 10^s, as digits
HalfUp(n, s) == BToDigits(BShl(BPow(5, s), UlpExponent(n) - 1 + s))
\* half the gap to the next f64 below: half as wide under a power of two
HalfDown(n, s) ==
    IF n.m = <<1>> /\ UlpExponent(n) > MinExponent
    THEN BToDigits(BShl(BPow(5, s), UlpExponent(n) - 2 + s))
    ELSE HalfUp(n, s)
\* a decimal at half a gap from n reads back as n when the 53-bit mantissa
\* of n is even
EvenMantissa(n) == n.e > UlpExponent(n)

\* the digits after the first k of D are one half of the k-th place or more:
\* of two decimals equally far from n the upper one is printed
UpperHalf(D, k) == DigitVal(D[k + 1]) >= 5

\* the first k digits of D read back as n: what they leave out is within the
\* half gap below
ReadsBackLow(n, tail, down) ==
    DecLess(tail, down) \/ (EvenMantissa(n) /\ DecEqual(tail, down))
\* the first k digits of D plus one read back as n: what they add is within
\* the half gap above
ReadsBackHigh(n, tail, up) ==
    /\ DecLess(NinesMinus(tail), up)
    /\ EvenMantissa(n) \/ ~DecEqual(DecInc(NinesMinus(tail)), up)

\* the shortest digits that read back as n, the nearest to n of that length:
\* the first k digits of D = |n| * 10^s, as they are or plus one
RECURSIVE Shortest(_, _, _, _, _, _)
ShortestOf(n, D, s, down, up, k, lo, hi, p, loBack, hiBack) ==
    IF loBack /\ hiBack THEN [ds |-> IF UpperHalf(D, k) THEN hi ELSE lo, p |-> p]
    ELSE IF loBack THEN [ds |-> lo, p |-> p]
    ELSE IF hiBack THEN [ds |-> hi, p |-> p]
    ELSE Shortest(n, D, s, down, up, k + 1)
ShortestAt(n, D, s, down, up, k, tail) ==
    ShortestOf(n, D, s, down, up, k, SubSeq(D, 1, k), DecInc(SubSeq(D, 1, k)),
               Len(D) - k - s, ReadsBackLow(n, tail, down), ReadsBackHigh(n, tail, up))
Shortest(n, D, s, down, up, k) ==
    IF k >= Len(D) THEN [ds |-> D, p |-> -s]
    ELSE ShortestAt(n, D, s, down, up, k, SubSeq(D, k + 1, Len(D)))
ShortestScaled(n, s) == Shortest(n, ScaledDigits(n, s), s, HalfDown(n, s), HalfUp(n, s), 1)
\* a whole number below 2^53 is its own digits: no shorter decimal is nearer
\* to it than one half
ShortestDigits(n) ==
    IF n.e >= 0 /\ UlpExponent(n) <= 0 THEN [ds |-> BToDigits(BShl(n.m, n.e)), p |-> 0]
    ELSE ShortestScaled(n, DecimalScale(n))

\* digits times 10^p written without an exponent
Positional(ds, p) ==
    IF p >= 0 THEN ds \o Zeros(p)
    ELSE IF Len(ds) > -p
    THEN SubSeq(ds, 1, Len(ds) + p) \o <<".">> \o SubSeq(ds, Len(ds) + p + 1, Len(ds))
    ELSE <<"0", ".">> \o Zeros(-p - Len(ds)) \o ds
Plain(d) ==
    Positional(SubSeq(d.ds, 1, Len(d.ds) - EndingZeros(d.ds)), d.p + EndingZeros(d.ds))

\* format!("{:.0}", n) for a finite n without a fraction: all its digits
FormatPrecision0(n) ==
    SignText(n) \o (IF IsZero(n) THEN <<"0">> ELSE BToDigits(BShl(n.m, n.e)))

\* format!("{}", n): no exponent; the shortest digits that read back as n
FormatDisplay(n) ==
    IF IsNaN(n) THEN <<"N", "a", "N">>
    ELSE IF IsInf(n) THEN SignText(n) \o <<"i", "n", "f">>
    ELSE IF IsZero(n) THEN SignText(n) \o <<"0">>
    ELSE SignText(n) \o Plain(ShortestDigits(n))

\* 1e15
Limit1e15 == BPow(10, 15)

\* Expr::to_string, the arm of Expr::Number: n.fract() == 0.0 holds of the
\* finite values without a fraction, n.abs() < 1e15 of those below 10^15
Number_to_string(n) ==
    IF n.cls = "fin" /\ n.e >= 0 /\ BLess(BShl(n.m, n.e), Limit1e15)
    THEN FormatPrecision0(n) ELSE FormatDisplay(n)

\* Expr::to_string
RECURSIVE to_string(_)
to_string(e) ==
    IF e.tag = "Number" THEN Number_to_string(e.n)
    ELSE IF e.tag = "Neg" THEN <<"-">> \o to_string(e.expr)
    ELSE <<"(">> \o to_string(e.left)
         \o <<" ", (CASE e.tag = "Add" -> "+" [] e.tag = "Sub" -> "-"
                      [] e.tag = "Mul" -> "*" [] OTHER -> "/"), " ">>
         \o to_string(e.right) \o <<")">>

\* --------------------------------------------------- grammar (compute.pest)
\* A match result: ok, the position after the match, and the pair produced.
\* A pair has the rule that produced it, the text it spans and its inner pairs.
Pair(rule, str, inner) == [rule |-> rule, str |-> str, inner |-> inner]
Match(pos, pair) == [ok |-> TRUE, pos |-> pos, pair |-> pair]
NoMatch == [ok |-> FALSE]

\* implicit WHITESPACE* between the elements of a sequence
RECURSIVE SkipWS(_, _)
SkipWS(t, p) == IF At(t, p) \in WHITESPACE THEN SkipWS(t, p + 1) ELSE p

\* number with ASCII_DIGIT* after the point: "5." is a number
G_number_open(t, p) ==
    LET q == DigitsEnd(t, p)
        e == IF At(t, q) = "." THEN DigitsEnd(t, q + 1) ELSE q
    IN  IF q = p THEN NoMatch
        ELSE Match(e, Pair("number", SubSeq(t, p, e - 1), <<>>))

\* number = @{ ASCII_DIGIT+ ~ ("." ~ ASCII_DIGIT+)? }
G_number(t, p) ==
    LET q == DigitsEnd(t, p)
        r == IF At(t, q) = "." THEN DigitsEnd(t, q + 1) ELSE q
        e == IF r > q + 1 THEN r ELSE q
    IN  IF q = p THEN NoMatch
        ELSE Match(e, Pair("number", SubSeq(t, p, e - 1), <<>>))

RECURSIVE G_additive(_, _)
RECURSIVE G_addTail(_, _, _)
RECURSIVE G_multiplicative(_, _)
RECURSIVE G_mulTail(_, _, _)
RECURSIVE G_unary(_, _)
RECURSIVE G_primary(_, _)

\* "(" ~ additive ~ ")" once the additive a has been matched after the "(" at p
PrimaryClose(t, p, a) ==
    IF ~a.ok THEN NoMatch
    ELSE LET c == SkipWS(t, a.pos)
         IN  IF At(t, c) # ")" THEN NoMatch
             ELSE Match(c + 1, Pair("primary", SubSeq(t, p, c), <<a.pair>>))

\* primary = { number | "(" ~ additive ~ ")" }
G_primary(t, p) ==
    LET n == G_number(t, p)
    IN  IF n.ok THEN Match(n.pos, Pair("primary", n.pair.str, <<n.pair>>))
        ELSE IF At(t, p) # "(" THEN NoMatch
        ELSE PrimaryClose(t, p, G_additive(t, SkipWS(t, p + 1)))

\* "-" ~ unary once the inner unary has been tried after the "-" at p
UnaryMinus(t, p, inner) ==
    IF inner.ok
    THEN Match(inner.pos, Pair("unary", SubSeq(t, p, inner.pos - 1), <<inner.pair>>))
    ELSE NoMatch

UnaryPrimary(pr) ==
    IF pr.ok THEN Match(pr.pos, Pair("unary", pr.pair.str, <<pr.pair>>)) ELSE NoMatch

\* unary = { "-" ~ unary | primary }; no primary starts with "-", so the second
\* alternative cannot match where the first was tried and failed
G_unary(t, p) ==
    IF At(t, p) = "-" THEN UnaryMinus(t, p, G_unary(t, SkipWS(t, p + 1)))
    ELSE UnaryPrimary(G_primary(t, p))

\* one more (mul_op ~ unary) after the operator at o, or the repetition ends at p
MulTailStep(t, p, acc, o, u) ==
    IF ~u.ok THEN [pos |-> p, inner |-> acc]
    ELSE G_mulTail(t, u.pos, acc \o <<Pair("mul_op", <<t[o]>>, <<>>), u.pair>>)

\* (mul_op ~ unary)*  with mul_op = { "*" | "/" }
G_mulTail(t, p, acc) ==
    LET o == SkipWS(t, p)
    IN  IF At(t, o) \notin {"*", "/"} THEN [pos |-> p, inner |-> acc]
        ELSE MulTailStep(t, p, acc, o, G_unary(t, SkipWS(t, o + 1)))

MultiplicativeEnd(t, p, tl) ==
    Match(tl.pos, Pair("multiplicative", SubSeq(t, p, tl.pos - 1), tl.inner))

MultiplicativeRest(t, p, u) ==
    IF ~u.ok THEN NoMatch
    ELSE MultiplicativeEnd(t, p, G_mulTail(t, u.pos, <<u.pair>>))

\* multiplicative = { unary ~ (mul_op ~ unary)* }
G_multiplicative(t, p) == MultiplicativeRest(t, p, G_unary(t, p))

\* one more (add_op ~ multiplicative) after the operator at o, or the
\* repetition ends at p
AddTailStep(t, p, acc, o, m) ==
    IF ~m.ok THEN [pos |-> p, inner |-> acc]
    ELSE G_addTail(t, m.pos, acc \o <<Pair("add_op", <<t[o]>>, <<>>), m.pair>>)

\* (add_op ~ multiplicative)*  with add_op = { "+" | "-" }
G_addTail(t, p, acc) ==
    LET o == SkipWS(t, p)
    IN  IF At(t, o) \notin {"+", "-"} THEN [pos |-> p, inner |-> acc]
        ELSE AddTailStep(t, p, acc, o, G_multiplicative(t, SkipWS(t, o + 1)))

AdditiveEnd(t, p, tl) ==
    Match(tl.pos, Pair("additive", SubSeq(t, p, tl.pos - 1), tl.inner))

AdditiveRest(t, p, m) ==
    IF ~m.ok THEN NoMatch
    ELSE AdditiveEnd(t, p, G_addTail(t, m.pos, <<m.pair>>))

\* additive = { multiplicative ~ (add_op ~ multiplicative)* }
G_additive(t, p) == AdditiveRest(t, p, G_multiplicative(t, p))

\* ~ EOI after the additive a
ExprEnd(t, a) ==
    IF ~a.ok THEN NoMatch
    ELSE IF SkipWS(t, a.pos) # Len(t) + 1 THEN NoMatch
    ELSE Match(Len(t) + 1, Pair("expr", t, <<a.pair, Pair("EOI", <<>>, <<>>)>>))

\* expr = { SOI ~ additive ~ EOI }; ComputeParser::parse(Rule::expr, text)
ComputeParser_parse(t) == ExprEnd(t, G_additive(t, SkipWS(t, 1)))

\* ------------------------------------------------------ tree walkers
RECURSIVE parse_additive(_)
RECURSIVE fold_additive(_, _, _)
RECURSIVE parse_multiplicative(_)
RECURSIVE fold_multiplicative(_, _, _)
RECURSIVE parse_unary(_)
RECURSIVE parse_primary(_)

\* Ok(Expr::Number(text.parse()?)): a text that str::parse::<f64> refuses is
\* ComputeError::InvalidNumber, by From<ParseFloatError>
NumberOf(parsed) == IF IsOk(parsed) THEN Ok(Number(parsed.val)) ELSE Err("InvalidNumber")

\* parse_primary without the arm for a parenthesised additive
parse_primary_number_only(pair) ==
    IF pair.rule = "number" THEN NumberOf(ParseFloat(pair.str))
    ELSE IF pair.rule = "primary"
    THEN IF pair.inner = <<>> THEN Err("InvalidStructure")
         ELSE LET inner == pair.inner[1]
              IN  IF inner.rule = "number" THEN NumberOf(ParseFloat(inner.str))
                  ELSE Err("InvalidStructure")
    ELSE Err("InvalidStructure")

parse_primary(pair) ==
    IF pair.rule = "number" THEN NumberOf(ParseFloat(pair.str))
    ELSE IF pair.rule = "primary"
    THEN IF pair.inner = <<>> THEN Err("InvalidStructure")
         ELSE LET inner == pair.inner[1]
              IN  IF inner.rule = "number" THEN NumberOf(ParseFloat(inner.str))
                  ELSE IF inner.rule = "additive" THEN parse_additive(inner)
                  ELSE Err("InvalidStructure")
    ELSE Err("InvalidStructure")

\* parse_unary handing the operand of a minus to parse_primary
parse_unary_to_primary(pair) ==
    IF pair.rule = "unary"
    THEN IF pair.str # <<>> /\ pair.str[1] = "-"
         THEN IF pair.inner = <<>> THEN Err("InvalidStructure")
              ELSE LET r == parse_primary(pair.inner[1])
                   IN  IF IsOk(r) THEN Ok(Neg(r.val)) ELSE r
         ELSE IF pair.inner = <<>> THEN Err("InvalidStructure")
              ELSE parse_primary(pair.inner[1])
    ELSE parse_primary(pair)

\* Ok(Expr::Neg(Box::new(operand?)))
NegOf(operand) == IF IsOk(operand) THEN Ok(Neg(operand.val)) ELSE operand

parse_unary(pair) ==
    IF pair.rule = "unary"
    THEN IF pair.str # <<>> /\ pair.str[1] = "-"
         THEN IF pair.inner = <<>> THEN Err("InvalidStructure")
              ELSE NegOf(parse_unary(pair.inner[1]))
         ELSE IF pair.inner = <<>> THEN Err("InvalidStructure")
              ELSE parse_primary(pair.inner[1])
    ELSE parse_primary(pair)

\* MulStep with the arm for "/" left out of the match
MulStepTimesOnly(pairs, i, left, right) ==
    IF ~IsOk(right) THEN right
    ELSE IF pairs[i].str = <<"*">>
         THEN fold_multiplicative(pairs, i + 2, Mul(left, right.val))
    ELSE Err("InvalidStructure")

\* one turn of the loop of parse_multiplicative, right operand parsed
MulStep(pairs, i, left, right) ==
    IF ~IsOk(right) THEN right
    ELSE IF pairs[i].str = <<"*">>
         THEN fold_multiplicative(pairs, i + 2, Mul(left, right.val))
    ELSE IF pairs[i].str = <<"/">>
         THEN fold_multiplicative(pairs, i + 2, Div(left, right.val))
    ELSE Err("InvalidStructure")

\* the while loop of parse_multiplicative from the i-th inner pair on
fold_multiplicative(pairs, i, left) ==
    IF i > Len(pairs) THEN Ok(left)
    ELSE IF i + 1 > Len(pairs) THEN Err("InvalidStructure")
    ELSE MulStep(pairs, i, left, parse_unary(pairs[i + 1]))

\* parse_multiplicative taking a leading minus off its first operand and
\* putting it around the whole product
MulLoopNegOutside(pairs, left) ==
    IF ~IsOk(left) THEN left
    ELSE IF left.val.tag = "Neg"
         THEN NegOf(fold_multiplicative(pairs, 2, left.val.expr))
    ELSE fold_multiplicative(pairs, 2, left.val)

\* parse_multiplicative returning its first operand, the loop left out
MulLoopFirstOnly(pairs, left) == left

MulLoop(pairs, left) ==
    IF ~IsOk(left) THEN left ELSE fold_multiplicative(pairs, 2, left.val)

parse_multiplicative(pair) ==
    IF pair.inner = <<>> THEN Err("InvalidStructure")
    ELSE MulLoop(pair.inner, parse_unary(pair.inner[1]))

\* the loop of parse_additive with the arms of parse_multiplicative's match
\* left in: "+" builds a Mul and "-" a Div
RECURSIVE fold_additive_pasted(_, _, _)

AddStepPasted(pairs, i, left, right) ==
    IF ~IsOk(right) THEN right
    ELSE IF pairs[i].str = <<"+">>
         THEN fold_additive_pasted(pairs, i + 2, Mul(left, right.val))
    ELSE IF pairs[i].str = <<"-">>
         THEN fold_additive_pasted(pairs, i + 2, Div(left, right.val))
    ELSE Err("InvalidStructure")

fold_additive_pasted(pairs, i, left) ==
    IF i > Len(pairs) THEN Ok(left)
    ELSE IF i + 1 > Len(pairs) THEN Err("InvalidStructure")
    ELSE AddStepPasted(pairs, i, left, parse_multiplicative(pairs[i + 1]))

\* fold_additive grouping to the right: a - b - c as a - (b - c)
RECURSIVE fold_additive_right(_, _, _)

AddRightJoin(op, left, right) ==
    IF ~IsOk(right) THEN right
    ELSE IF op = <<"+">> THEN Ok(Add(left, right.val))
    ELSE IF op = <<"-">> THEN Ok(Sub(left, right.val))
    ELSE Err("InvalidStructure")

AddRightRest(pairs, i, first) ==
    IF IsOk(first) THEN fold_additive_right(pairs, i + 2, first.val) ELSE first

fold_additive_right(pairs, i, left) ==
    IF i > Len(pairs) THEN Ok(left)
    ELSE IF i + 1 > Len(pairs) THEN Err("InvalidStructure")
    ELSE AddRightJoin(pairs[i].str, left,
                      AddRightRest(pairs, i, parse_multiplicative(pairs[i + 1])))

\* one turn of the loop of parse_additive, right operand parsed
AddStep(pairs, i, left, right) ==
    IF ~IsOk(right) THEN right
    ELSE IF pairs[i].str = <<"+">>
         THEN fold_additive(pairs, i + 2, Add(left, right.val))
    ELSE IF pairs[i].str = <<"-">>
         THEN fold_additive(pairs, i + 2, Sub(left, right.val))
    ELSE Err("InvalidStructure")

\* the while loop of parse_additive from the i-th inner pair on
fold_additive(pairs, i, left) ==
    IF i > Len(pairs) THEN Ok(left)
    ELSE IF i + 1 > Len(pairs) THEN Err("InvalidStructure")
    ELSE AddStep(pairs, i, left, parse_multiplicative(pairs[i + 1]))

AddLoop(pairs, left) ==
    IF ~IsOk(left) THEN left ELSE fold_additive(pairs, 2, left.val)

parse_additive(pair) ==
    IF pair.inner = <<>> THEN Err("InvalidStructure")
    ELSE AddLoop(pair.inner, parse_multiplicative(pair.inner[1]))

\* parse_expression starting the parser at the additive rule, which does not
\* ask for the end of the input
parse_expression_additive_rule(t) ==
    LET a == G_additive(t, SkipWS(t, 1))
    IN  IF a.ok THEN parse_additive(a.pair) ELSE Err("ParseError")

\* the walk from the pairs ComputeParser::parse returned
ParsedPairs(pairs) ==
    IF ~pairs.ok THEN Err("ParseError")
    ELSE IF pairs.pair.inner = <<>> THEN Err("InvalidStructure")
    ELSE parse_additive(pairs.pair.inner[1])

parse_expression(t) == ParsedPairs(ComputeParser_parse(t))

\* ------------------------------------------------------------ evaluator
RECURSIVE eval_expr(_)

\* Ok(-operand?)
EvalNeg(v) == IF IsOk(v) THEN Ok(FNeg(v.val)) ELSE v

\* Ok(left? / divisor)
EvalQuotient(l, divisor) == IF IsOk(l) THEN Ok(FDiv(l.val, divisor.val)) ELSE l

\* EvalDiv testing the dividend, not the divisor, against zero
EvalDivDividend(e, divisor) ==
    IF ~IsOk(divisor) THEN divisor
    ELSE LET l == eval_expr(e.left)
         IN  IF ~IsOk(l) THEN l
             ELSE IF IsZero(l.val) THEN Err("DivisionByZero")
             ELSE Ok(FDiv(l.val, divisor.val))

\* the Div arm of eval_expr, divisor evaluated
EvalDiv(e, divisor) ==
    IF ~IsOk(divisor) THEN divisor
    ELSE IF IsZero(divisor.val) THEN Err("DivisionByZero")
    ELSE EvalQuotient(eval_expr(e.left), divisor)

\* Ok(left op right?)
EvalRight(tag, l, r) ==
    IF ~IsOk(r) THEN r
    ELSE IF tag = "Add" THEN Ok(FAdd(l.val, r.val))
    ELSE IF tag = "Sub" THEN Ok(FSub(l.val, r.val))
    ELSE Ok(FMul(l.val, r.val))

\* EvalLeft answering a product with a zero left factor without its right one
EvalLeftZeroProduct(e, l) ==
    IF ~IsOk(l) THEN l
    ELSE IF e.tag = "Mul" /\ IsZero(l.val) THEN Ok(l.val)
    ELSE EvalRight(e.tag, l, eval_expr(e.right))

\* Ok(left? op right?)
EvalLeft(e, l) == IF ~IsOk(l) THEN l ELSE EvalRight(e.tag, l, eval_expr(e.right))

eval_expr(e) ==
    IF e.tag = "Number" THEN Ok(e.n)
    ELSE IF e.tag = "Neg" THEN EvalNeg(eval_expr(e.expr))
    ELSE IF e.tag = "Div" THEN EvalDiv(e, eval_expr(e.right))
    ELSE EvalLeft(e, eval_expr(e.left))

\* eval_expr(&ast) on the ast of parse_expression(expr)?
EvalParsed(ast) == IF IsOk(ast) THEN eval_expr(ast.val) ELSE ast

\* evaluate_expression on the longest expression the text starts with
evaluate_expression_prefix(t) == EvalParsed(parse_expression_additive_rule(t))

evaluate_expression(t) == EvalParsed(parse_expression(t))

\* str::trim().is_empty(): every character is white space
TrimIsEmpty(t) == \A i \in 1..Len(t) : t[i] \in TrimSpace

\* evaluate testing the text for emptiness without trimming it
evaluate_call_untrimmed(t) ==
    IF t = <<>> THEN [value |-> Err("EmptyExpression"), parserRuns |-> 0]
    ELSE [value |-> evaluate_expression(t), parserRuns |-> 1]

\* evaluate without the early return for an empty text
evaluate_call_unchecked(t) == [value |-> evaluate_expression(t), parserRuns |-> 1]

\* evaluate taking a text that starts with white space for an empty one
evaluate_call_leading_space(t) ==
    IF t = <<>> \/ t[1] \in TrimSpace
    THEN [value |-> Err("EmptyExpression"), parserRuns |-> 0]
    ELSE [value |-> evaluate_expression(t), parserRuns |-> 1]

\* evaluate, with the number of times it ran the parser
evaluate_call(t) ==
    IF TrimIsEmpty(t) THEN [value |-> Err("EmptyExpression"), parserRuns |-> 0]
    ELSE [value |-> evaluate_expression(t), parserRuns |-> 1]

evaluate(t) == evaluate_call(t).value

\* Expression::from(&str): wraps the text as it is
Expression_from(t) == t

\* Option<Expression>
Some(e) == [kind |-> "Some", val |-> e]
OptionNone == [kind |-> "Absent"]

\* str::trim(): the text without its leading and trailing white space
RECURSIVE TrimStart(_)
TrimStart(t) == IF t # <<>> /\ Head(t) \in TrimSpace THEN TrimStart(Tail(t)) ELSE t

RECURSIVE TrimEnd(_)
TrimEnd(t) ==
    IF t # <<>> /\ t[Len(t)] \in TrimSpace THEN TrimEnd(SubSeq(t, 1, Len(t) - 1)) ELSE t

Trim(t) == TrimEnd(TrimStart(t))

\* Expression::new keeping the trimmed text
Expression_new_trimmed(expr) ==
    IF Trim(expr) = <<>> THEN OptionNone ELSE Some(Trim(expr))

\* Expression::new
Expression_new(expr) ==
    IF Trim(expr) = <<>> THEN OptionNone ELSE Some(expr)

\* Expression::as_str and Display for Expression: the wrapped text
as_str(e) == e
Display(e) == e

EvaluationResult(e, v) == [expression |-> e, value |-> v]

\* evaluate_batch leaving out the entries that fail
RECURSIVE evaluate_batch_filtered(_)
evaluate_batch_filtered(expressions) ==
    IF expressions = <<>> THEN <<>>
    ELSE (IF IsOk(evaluate_expression(Head(expressions)))
          THEN <<EvaluationResult(Head(expressions),
                                  evaluate_expression(Head(expressions)))>>
          ELSE <<>>)
         \o evaluate_batch_filtered(Tail(expressions))

\* evaluate_batch stopping at the first entry that fails
RECURSIVE evaluate_batch_abort(_)
evaluate_batch_abort(expressions) ==
    IF expressions = <<>> THEN <<>>
    ELSE IF IsOk(evaluate_expression(Head(expressions)))
    THEN <<EvaluationResult(Head(expressions), evaluate_expression(Head(expressions)))>>
         \o evaluate_batch_abort(Tail(expressions))
    ELSE <<EvaluationResult(Head(expressions), evaluate_expression(Head(expressions)))>>

\* expressions.iter().map(..).collect()
RECURSIVE evaluate_batch(_)
evaluate_batch(expressions) ==
    IF expressions = <<>> THEN <<>>
    ELSE <<EvaluationResult(Head(expressions), evaluate_expression(Head(expressions)))>>
         \o evaluate_batch(Tail(expressions))

\* expressions.iter().filter_map(|s| Expression::new(s.clone())).collect()
RECURSIVE filter_map_new(_)
filter_map_new(strings) ==
    IF strings = <<>> THEN <<>>
    ELSE (IF Expression_new(Head(strings)) = OptionNone THEN <<>>
          ELSE <<Expression_new(Head(strings)).val>>)
         \o filter_map_new(Tail(strings))

\* a serde_json Value of the expressions array: a string, or a value that is
\* none (a number stands for the numbers, booleans, nulls, arrays and objects)
JsonString(t) == [json |-> "string", str |-> t]
JsonNumber == [json |-> "number", str |-> <<>>]
JsonStrings(ts) == [i \in 1..Len(ts) |-> JsonString(ts[i])]

\* serde_json of an f64: a value that is no finite number is written as null
JsonNull == [json |-> "null", str |-> <<>>]
to_value(n) == IF n.cls = "fin" THEN n ELSE JsonNull

\* Value::as_str
Value_as_str(v) == IF v.json = "string" THEN Some(v.str) ELSE OptionNone

\* exprs.iter().filter_map(|v| v.as_str()).map(Expression::from).collect():
\* the values that are no strings are dropped
RECURSIVE map_from(_)
map_from(values) ==
    IF values = <<>> THEN <<>>
    ELSE (IF Value_as_str(Head(values)) = OptionNone THEN <<>>
          ELSE <<Expression_from(Value_as_str(Head(values)).val)>>)
         \o map_from(Tail(values))

\* read_stdin_expressions of the compute binary: the lines of stdin that
\* could be read and are not blank
RECURSIVE read_stdin_expressions(_)
read_stdin_expressions(input) ==
    IF input = <<>> THEN <<>>
    ELSE (IF IsOk(Head(input)) /\ ~TrimIsEmpty(Head(input).val)
          THEN <<Head(input).val>> ELSE <<>>)
         \o read_stdin_expressions(Tail(input))

\* EvalResult of the compute binary; the error is kept as its kind
EvalResult(expression, result) == [expression |-> expression, result |-> result]


\* expressions.iter().zip(results.iter()): as long as the shorter of the two
ZipResults(expressions, results) ==
    [i \in 1..Min(Len(expressions), Len(results))
        |-> EvalResult(expressions[i], results[i].value)]

\* evaluate_batch_expressions of the compute binary: its eval_results, the
\* records it prints
evaluate_batch_expressions(expressions) ==
    ZipResults(expressions, evaluate_batch(filter_map_new(expressions)))

\* OutputFormat
OutputFormats == {"Plain", "Json", "Pretty"}

\* Result<f64, String> as serde_json writes it
Result_to_value(r) == IF IsOk(r) THEN Ok(to_value(r.val)) ELSE r

\* the records as the format writes them: the Json format by serde_json, the
\* Plain and Pretty formats the value as it is displayed
FormatRecords(format, eval_results) ==
    IF format = "Json"
    THEN [i \in 1..Len(eval_results)
            |-> EvalResult(eval_results[i].expression,
                           Result_to_value(eval_results[i].result))]
    ELSE eval_results

\* how many of n records are out when a print fails (println! panics): the
\* Json format prints all in one line, the Plain format a line for each
\* record, the Pretty format two lines before the records and two after
FailedAfter(format, n) ==
    IF format = "Json" THEN {0}
    ELSE IF format = "Plain" THEN 0..(n - 1)
    ELSE 0..n

IsErrRecord(r) == ~IsOk(r.result)

\* the records that go to stderr: the errors of the Plain format with --stderr
StderrRecords(format, use_stderr, printed) ==
    IF format = "Plain" /\ use_stderr THEN SelectSeq(printed, IsErrRecord) ELSE <<>>

\* results.iter().filter(|r| r.value.is_ok()).count()
RECURSIVE successful(_)
successful(results) ==
    IF results = <<>> THEN 0
    ELSE (IF IsOk(Head(results).value) THEN 1 ELSE 0) + successful(Tail(results))

\* Summary of the compute binary, of the strings given and the results of
\* the Expressions made of them
Summary(expressions, results) ==
    [total |-> Len(expressions),
     successful |-> successful(results),
     failed |-> Len(results) - successful(results)]

\* the stdio server keeps the last 100 calculations
HistoryCap == 100

\* ComputeState::add_to_history keeping the oldest 100 entries
add_to_history_keep_oldest(h, expression, result) ==
    LET pushed == Append(h, <<expression, result>>)
    IN  IF Len(pushed) > HistoryCap THEN SubSeq(pushed, 1, HistoryCap) ELSE pushed

\* ComputeState::add_to_history: push, then remove(0) when more than 100
add_to_history(h, expression, result) ==
    LET pushed == Append(h, <<expression, result>>)
    IN  IF Len(pushed) > HistoryCap THEN Tail(pushed) ELSE pushed

\* ComputeState::get_history
get_history(h) == [i \in 1..Len(h) |-> [expression |-> h[i][1], result |-> h[i][2]]]

\* the loop over batch_results adding the successes newest first
RECURSIVE record_results_backwards(_, _)
record_results_backwards(h, results) ==
    IF results = <<>> THEN h
    ELSE record_results_backwards(
             IF IsOk(results[Len(results)].value)
             THEN add_to_history(h, Display(results[Len(results)].expression),
                                 results[Len(results)].value.val)
             ELSE h,
             SubSeq(results, 1, Len(results) - 1))

\* the loop over batch_results of the evaluate_batch tool: every success goes
\* to the history, in the order of the results
RECURSIVE record_results(_, _)
record_results(h, results) ==
    IF results = <<>> THEN h
    ELSE record_results(IF IsOk(Head(results).value)
                        THEN add_to_history(h, Display(Head(results).expression),
                                            Head(results).value.val)
                        ELSE h,
                        Tail(results))

\* the calculations of a batch handed to add_to_history, in order
RECURSIVE Successes(_)
Successes(results) ==
    IF results = <<>> THEN <<>>
    ELSE (IF IsOk(Head(results).value)
          THEN <<<<Display(Head(results).expression), Head(results).value.val>>>>
          ELSE <<>>)
         \o Successes(Tail(results))

\* the response of the evaluate tool: success(EvaluateResponse { .. }), the
\* result as serde_json::to_value writes it
EvaluateResponse(expr_str, r) ==
    IF IsOk(r) THEN <<[expression |-> expr_str, result |-> to_value(r.val)]>>
    ELSE <<[error |-> r.kind]>>

\* BatchResult of the stdio server, as serde_json::to_value writes it
BatchResult(r) ==
    IF IsOk(r.value)
    THEN [expression |-> Display(r.expression), result |-> to_value(r.value.val),
          success |-> TRUE]
    ELSE [expression |-> Display(r.expression), error |-> r.value.kind, success |-> FALSE]

BatchResponse(results) == [i \in 1..Len(results) |-> BatchResult(results[i])]

\* success(HistoryResponse { history, count }): the entries as
\* serde_json::to_value writes them
HistoryResponse(entries) ==
    [i \in 1..Len(entries) |-> [expression |-> entries[i].expression,
                                result |-> to_value(entries[i].result)]]

\* ---------------------------------------------- the stdio server's loop
\* A line of stdin as the loop tells lines apart: blank, not a JSON-RPC
\* message, a message that is no request, or a request with its id, its
\* method and, for tools/call, the tool's name and arguments (an absent
\* expression is the empty string, as unwrap_or("") makes it).
Line(kind, id, method, name, expression, is_array, expressions) ==
    [kind |-> kind, id |-> id, method |-> method, name |-> name,
     expression |-> expression, is_array |-> is_array, expressions |-> expressions]

\* error(msg)
error(msg) == <<[error |-> msg]>>

\* tools/call evaluate, expr_str evaluated to r
tool_evaluate(h, expr_str, r) ==
    [history |-> IF IsOk(r) THEN add_to_history(h, expr_str, r.val) ELSE h,
     result |-> EvaluateResponse(expr_str, r)]

\* tools/call evaluate_batch, the expressions evaluated to batch_results
tool_evaluate_batch(h, batch_results) ==
    [history |-> record_results(h, batch_results),
     result |-> BatchResponse(batch_results)]

\* tools/call: the match on tool_name
tools_call(h, req) ==
    IF req.name = "evaluate"
    THEN tool_evaluate(h, req.expression, evaluate(req.expression))
    ELSE IF req.name = "evaluate_batch"
    THEN IF req.is_array
         THEN tool_evaluate_batch(h, evaluate_batch(map_from(req.expressions)))
         ELSE [history |-> h, result |-> error("expressions must be an array of strings")]
    ELSE IF req.name = "history"
    THEN [history |-> h, result |-> HistoryResponse(get_history(h))]
    ELSE [history |-> h, result |-> error("Unknown tool")]

\* the response to tools/call: the tool's result as the content
Called(c) == [respond |-> TRUE, history |-> c.history, result |-> c.result]

\* the methods answered without a look at the state
ListMethods == {"initialize", "tools/list", "resources/list", "prompts/list"}

\* the match on req.method: the response, or none for an unknown method
handle_request(h, req) ==
    IF req.method \in ListMethods
    THEN [respond |-> TRUE, history |-> h, result |-> <<[method |-> req.method]>>]
    ELSE IF req.method = "tools/call" THEN Called(tools_call(h, req))
    ELSE [respond |-> FALSE, history |-> h, result |-> <<>>]

\* one turn of the loop on a line read: blank lines, lines serde_json does
\* not take for a message and messages that are no request are passed over
handle_line(h, line) ==
    IF line.kind = "request" THEN handle_request(h, line)
    ELSE [respond |-> FALSE, history |-> h, result |-> <<>>]

\* JSONRPCResponse::new(req.id, result)
JSONRPCResponse(id, result) == [id |-> id, result |-> result]

\* ------------------------------------------------------------- the REPL
Chars_help == <<"h", "e", "l", "p">>
Chars_history == <<"h", "i", "s", "t", "o", "r", "y">>
Chars_clear == <<"c", "l", "e", "a", "r">>
Chars_quit == <<"q", "u", "i", "t">>
Chars_exit == <<"e", "x", "i", "t">>

\* what one turn of the loop of run_repl does: the history after it, what it
\* prints to stdout and to stderr, the texts it hands to evaluate, whether
\* it leaves the loop, and the history as it is when the turn prints (a
\* print that fails ends the process there)
Turn(h, printed, calls, stop) ==
    [history |-> h, before |-> h, printed |-> printed, errors |-> <<>>,
     calls |-> calls, stop |-> stop]

\* the history command's listing
print_history(h) ==
    IF h = <<>> THEN <<"No calculations yet.">> ELSE <<"History:">> \o h

\* the last arm of the match: a value is printed to stdout (println!), an
\* error to stderr (eprintln!), and then evaluate(trimmed) is pushed, the
\* error as its message
repl_evaluate(h, trimmed, r) ==
    IF IsOk(r)
    THEN [Turn(Append(h, <<trimmed, r>>), <<r>>, <<trimmed>>, FALSE) EXCEPT !.before = h]
    ELSE [Turn(Append(h, <<trimmed, r>>), <<>>, <<trimmed>>, FALSE)
             EXCEPT !.errors = <<r>>, !.before = h]

\* a byte that no UTF-8 text holds stands in a line of stdin as this character
InvalidByte == "0xFF"

IsUtf8(line) == \A i \in 1..Len(line) : line[i] # InvalidByte

\* the match on the trimmed line
repl_match(h, trimmed) ==
    IF trimmed \in {Chars_quit, Chars_exit} THEN Turn(h, <<>>, <<>>, TRUE)
    ELSE IF trimmed = Chars_help THEN Turn(h, <<"Commands:">>, <<>>, FALSE)
    ELSE IF trimmed = Chars_history THEN Turn(h, print_history(h), <<>>, FALSE)
    ELSE IF trimmed = Chars_clear THEN Turn(<<>>, <<"History cleared.">>, <<>>, FALSE)
    ELSE IF trimmed = <<>> THEN Turn(h, <<>>, <<>>, FALSE)
    ELSE repl_evaluate(h, trimmed, evaluate(trimmed))

\* match lines.next(): Some(Ok(line)) goes to the match on line.trim(); a
\* line that is not valid UTF-8 is Some(Err(_)) and takes the arm _ => break
repl_next(h, line) ==
    IF IsUtf8(line) THEN repl_match(h, Trim(line)) ELSE Turn(h, <<>>, <<>>, TRUE)

\* after the loop: the history printed when asked for and not empty
show(show_history, h) ==
    IF show_history /\ h # <<>> THEN <<"Calculation History:">> \o h ELSE <<>>

\* ------------------------------------------------------------------ state
VARIABLES
    text,        \* the text handed to evaluate / parse_expression
    pc,          \* "input" while the input is composed, then the call made
    outcome,     \* what the call returned
    parserRuns,  \* how many times the call ran ComputeParser::parse
    stack,       \* ASTs under construction (SpecAst)
    batchA,      \* a batch of Expressions (SpecBatch)
    batchB,      \* a second batch, evaluated independently of the first
    resA,        \* evaluate_batch(batchA)
    resB,        \* evaluate_batch(batchB)
    args,        \* the strings given to the batch command or tool (SpecArgs)
    records,     \* the records the batch command prints, or the tool's response
    history,     \* ComputeState::history of the stdio server (SpecHistory)
    recorded,    \* every calculation handed to add_to_history, oldest first
    summary,     \* the Summary the batch command prints
    lines,       \* the lines read from stdin so far (SpecServer, SpecRepl)
    responses,   \* the lines written to stdout so far
    errors       \* what the REPL has written to stderr so far

vars == <<text, pc, outcome, parserRuns, stack, batchA, batchB, resA, resB,
          args, records, history, recorded, summary, lines, responses, errors>>

astVars == <<stack>>
batchVars == <<batchA, batchB, resA, resB>>
ioVars == <<lines, responses, errors>>
toolVars == <<args, records, history, recorded, summary, lines, responses, errors>>

None == [kind |-> "None"]

InitRest ==
    /\ pc = "input" /\ outcome = None /\ parserRuns = 0
    /\ stack = <<>>
    /\ batchA = <<>> /\ batchB = <<>> /\ resA = <<>> /\ resB = <<>>
    /\ args = <<>> /\ records = <<>> /\ history = <<>> /\ recorded = <<>>
    /\ summary = None /\ lines = <<>> /\ responses = <<>> /\ errors = <<>>

\* ---------------------------------------------------- calls on a text
Evaluate ==
    /\ pc = "input"
    /\ \E r \in {evaluate_call(text)} :
         outcome' = r.value /\ parserRuns' = r.parserRuns
    /\ pc' = "evaluated"
    /\ UNCHANGED <<text, astVars, batchVars, toolVars>>

ParseExpression ==
    /\ pc = "input"
    /\ outcome' = parse_expression(Expression_from(text))
    /\ parserRuns' = 1
    /\ pc' = "parsed"
    /\ UNCHANGED <<text, astVars, batchVars, toolVars>>

\* ------------------------------------------- Spec: any text up to MaxLen
TypeChar(A, max) ==
    /\ pc = "input"
    /\ Len(text) < max
    /\ \E c \in A : text' = Append(text, c)
    /\ UNCHANGED <<pc, outcome, parserRuns, astVars, batchVars, toolVars>>

TypeText == TypeChar(Alphabet, MaxLen)

Init == text = <<>> /\ InitRest

Next == TypeText \/ Evaluate \/ ParseExpression

Spec == Init /\ [][Next]_vars

\* ------------------------------- SpecParse: any text up to MaxLen, parsed
NextParse == TypeText \/ ParseExpression

SpecParse == Init /\ [][NextParse]_vars

\* -------------------------- SpecEvaluate: any text up to MaxLen, evaluated
NextEvaluate == TypeText \/ Evaluate

SpecEvaluate == Init /\ [][NextEvaluate]_vars

\* ---------- SpecOps: a text of operands, operators and parentheses up to
\* MaxLen, parsed
TypeOps == TypeChar(OpsAlphabet, MaxLen)

NextOps == TypeOps \/ ParseExpression

SpecOps == Init /\ [][NextOps]_vars

\* -------------------------- SpecNumber: numeric-looking text up to MaxLit
TypeLiteral == TypeChar(LiteralAlphabet, MaxLit)

NextNumber == TypeLiteral \/ Evaluate \/ ParseExpression

SpecNumber == Init /\ [][NextNumber]_vars

\* ------------- SpecSpace: text with white space of every kind up to MaxSpace
TypeSpaced == TypeChar(SpaceAlphabet, MaxSpace)

NextSpace == TypeSpaced \/ Evaluate \/ ParseExpression

SpecSpace == Init /\ [][NextSpace]_vars

\* ------ SpecPrint: any text up to MaxPrint, or a literal too large for f64,
\* parsed and printed back
TypePrint == TypeChar(Alphabet, MaxPrint)

\* a literal grows by as many zeros as f64::MAX has digits
TypeZeros ==
    /\ pc = "input"
    /\ text # <<>> /\ Len(text) <= MaxPrint
    /\ \A i \in 1..Len(text) : text[i] \in Digits
    /\ text[1] # "0"
    /\ text' = text \o [i \in 1..F64MaxDigits |-> "0"]
    /\ UNCHANGED <<pc, outcome, parserRuns, astVars, batchVars, toolVars>>

PrintParsed(ast) == IF IsOk(ast) THEN Ok(to_string(ast.val)) ELSE ast

\* parse_expression(text).map(|ast| ast.to_string())
PrettyPrint ==
    /\ pc = "input"
    /\ outcome' = PrintParsed(parse_expression(Expression_from(text)))
    /\ parserRuns' = 1
    /\ pc' = "printed"
    /\ UNCHANGED <<text, astVars, batchVars, toolVars>>

NextPrint == TypePrint \/ TypeZeros \/ PrettyPrint

SpecPrint == Init /\ [][NextPrint]_vars

\* ---------------------- SpecBlank: mostly-blank text up to MaxBlank
TypeBlank == TypeChar(BlankAlphabet, MaxBlank)

\* Expression::new(text)
NewExpression ==
    /\ pc = "input"
    /\ outcome' = Expression_new(text)
    /\ pc' = "constructed"
    /\ UNCHANGED <<text, parserRuns, astVars, batchVars, toolVars>>

\* Expression::from(text)
FromStr ==
    /\ pc = "input"
    /\ outcome' = Expression_from(text)
    /\ pc' = "converted"
    /\ UNCHANGED <<text, parserRuns, astVars, batchVars, toolVars>>

NextBlank == TypeBlank \/ Evaluate \/ ParseExpression \/ NewExpression \/ FromStr

SpecBlank == Init /\ [][NextBlank]_vars

\* ------------------- SpecGrammar: texts composed by the grammar's productions
InitGrammar == text \in Operands /\ InitRest

Compose(t) ==
    /\ pc = "input"
    /\ Len(t) <= MaxGen
    /\ text' = t
    /\ UNCHANGED <<pc, outcome, parserRuns, astVars, batchVars, toolVars>>

AppendOperand == \E op \in Operators, n \in Operands : Compose(text \o <<op>> \o n)

PrependOperand == \E op \in Operators, n \in Operands : Compose(n \o <<op>> \o text)

WrapParens == Compose(<<"(">> \o text \o <<")">>)

Negate == Compose(<<"-">> \o text)

NextGrammar ==
    \/ AppendOperand \/ PrependOperand \/ WrapParens \/ Negate
    \/ Evaluate \/ ParseExpression

SpecGrammar == InitGrammar /\ [][NextGrammar]_vars

\* ------------------------------ SpecAst: ASTs built directly, then evaluated
RECURSIVE Nodes(_)
Nodes(e) ==
    IF e.tag = "Number" THEN 1
    ELSE IF e.tag = "Neg" THEN 1 + Nodes(e.expr)
    ELSE 1 + Nodes(e.left) + Nodes(e.right)

RECURSIVE StackNodes(_)
StackNodes(s) == IF s = <<>> THEN 0 ELSE Nodes(Head(s)) + StackNodes(Tail(s))

Binary(op, l, r) ==
    CASE op = "+" -> Add(l, r) [] op = "-" -> Sub(l, r)
      [] op = "*" -> Mul(l, r) [] op = "/" -> Div(l, r)

InitAst == text = <<>> /\ InitRest

PushNumber ==
    /\ pc = "input"
    /\ StackNodes(stack) < MaxNodes
    /\ \E n \in Leaves : stack' = Append(stack, Number(n))
    /\ UNCHANGED <<text, pc, outcome, parserRuns, batchVars, toolVars>>

MkNeg ==
    /\ pc = "input"
    /\ stack # <<>>
    /\ StackNodes(stack) < MaxNodes
    /\ stack' = [stack EXCEPT ![Len(stack)] = Neg(@)]
    /\ UNCHANGED <<text, pc, outcome, parserRuns, batchVars, toolVars>>

MkBinary ==
    /\ pc = "input"
    /\ Len(stack) >= 2
    /\ StackNodes(stack) < MaxNodes
    /\ \E op \in Operators :
         stack' = Append(SubSeq(stack, 1, Len(stack) - 2),
                         Binary(op, stack[Len(stack) - 1], stack[Len(stack)]))
    /\ UNCHANGED <<text, pc, outcome, parserRuns, batchVars, toolVars>>

EvalExpr ==
    /\ pc = "input"
    /\ Len(stack) = 1
    /\ outcome' = eval_expr(stack[1])
    /\ pc' = "evaluated"
    /\ UNCHANGED <<text, parserRuns, stack, batchVars, toolVars>>

NextAst == PushNumber \/ MkNeg \/ MkBinary \/ EvalExpr

SpecAst == InitAst /\ [][NextAst]_vars

\* --------------------------------- SpecBatch: two batches, each evaluated
InitBatch == text = <<>> /\ InitRest

PushA ==
    /\ pc = "input"
    /\ Len(batchA) < MaxBatch
    /\ \E t \in BatchPool : batchA' = Append(batchA, Expression_from(t))
    /\ UNCHANGED <<text, pc, outcome, parserRuns, astVars, batchB, resA, resB, toolVars>>

PushB ==
    /\ pc = "input"
    /\ Len(batchB) < MaxBatch
    /\ \E t \in BatchPool : batchB' = Append(batchB, Expression_from(t))
    /\ UNCHANGED <<text, pc, outcome, parserRuns, astVars, batchA, resA, resB, toolVars>>

EvaluateBatch ==
    /\ pc = "input"
    /\ resA' = evaluate_batch(batchA)
    /\ resB' = evaluate_batch(batchB)
    /\ pc' = "batched"
    /\ UNCHANGED <<text, outcome, parserRuns, astVars, batchA, batchB, toolVars>>

NextBatch == PushA \/ PushB \/ EvaluateBatch

SpecBatch == InitBatch /\ [][NextBatch]_vars

\* --------- SpecArgs: up to MaxArgs strings handed to the batch command of
\* the compute binary, or made into Expressions and handed to evaluate_batch
PushArg ==
    /\ pc = "input"
    /\ Len(args) < MaxArgs
    /\ \E t \in ArgPool : args' = Append(args, t)
    /\ UNCHANGED <<text, pc, outcome, parserRuns, astVars, batchVars,
                   records, history, recorded, summary, ioVars>>

\* what stdin holds for the batch command: a line, or one that cannot be
\* read (it is no UTF-8)
StdinPool == {Ok(t) : t \in ArgPool} \cup {Err("InvalidData")}

PushStdin ==
    /\ pc = "input"
    /\ Len(lines) < MaxStdin
    /\ \E l \in StdinPool : lines' = Append(lines, l)
    /\ UNCHANGED <<text, pc, outcome, parserRuns, astVars, batchVars, args,
                   records, history, recorded, summary, responses, errors>>

\* what the match on the format has printed: the records, the errors among
\* them that went to stderr, and the summary, which the Plain format does
\* not print; done when no print failed
BatchPrinted(format, use_stderr, printed, summ, done) ==
    /\ records' = printed
    /\ errors' = StderrRecords(format, use_stderr, printed)
    /\ summary' = IF done /\ format # "Plain" THEN summ ELSE None
    /\ pc' = IF done THEN "reported" ELSE "failed"

\* the report in a format: all of it, or, when a print fails (println! and
\* eprintln! panic), the records printed before that
BatchOutcomes(format, use_stderr, eval_results, summ) ==
    \E done \in BOOLEAN :
        \E k \in (IF done THEN {Len(eval_results)}
                  ELSE FailedAfter(format, Len(eval_results))) :
            BatchPrinted(format, use_stderr,
                         SubSeq(FormatRecords(format, eval_results), 1, k), summ, done)

\* evaluate_batch_expressions(&expressions, format, use_stderr)
BatchReport(expressions, eval_results, summ) ==
    /\ args' = expressions
    /\ \E format \in OutputFormats, use_stderr \in BOOLEAN :
         BatchOutcomes(format, use_stderr, eval_results, summ)

BatchOf(expressions) ==
    BatchReport(expressions, evaluate_batch_expressions(expressions),
                Summary(expressions, evaluate_batch(filter_map_new(expressions))))

\* compute batch [--stdin] args...: the expressions are the lines of stdin
\* with --stdin, whatever strings are given, and the strings given without
BatchCommand ==
    /\ pc = "input"
    /\ \E stdin \in BOOLEAN :
         BatchOf(IF stdin THEN read_stdin_expressions(lines) ELSE args)
    /\ UNCHANGED <<text, outcome, parserRuns, astVars, batchVars, history,
                   recorded, lines, responses>>

\* evaluate_batch on the Expressions made of the strings by Expression::from
BatchFrom ==
    /\ pc = "input"
    /\ batchA' = map_from(JsonStrings(args))
    /\ resA' = evaluate_batch(map_from(JsonStrings(args)))
    /\ pc' = "batched"
    /\ UNCHANGED <<text, outcome, parserRuns, astVars, batchB, resB, toolVars>>

NextArgs == PushArg \/ PushStdin \/ BatchCommand \/ BatchFrom

SpecArgs == Init /\ [][NextArgs]_vars

\* ------- SpecHistory: tool calls to the stdio server. The text of a request
\* names the number of the calculation it would record, so that the entries
\* of the history can be told apart
NextNumeral == IntText(Len(recorded) + 1)
AfterNextNumeral == IntText(Len(recorded) + 2)

\* the texts of one evaluate request: one that evaluates, one that fails
EvaluateRequests == {NextNumeral, NextNumeral \o <<"/", "0">>}

\* the lists of one evaluate_batch request
BatchRequests ==
    {<<NextNumeral, NextNumeral \o <<"/", "0">>, AfterNextNumeral>>,
     <<<<"2", "+">>, NextNumeral>>,
     <<>>}

\* tools/call evaluate
ToolEvaluateOn(expr_str, r) ==
    /\ history' = IF IsOk(r) THEN add_to_history(history, expr_str, r.val) ELSE history
    /\ recorded' = IF IsOk(r) THEN Append(recorded, <<expr_str, r.val>>) ELSE recorded
    /\ records' = EvaluateResponse(expr_str, r)

ToolEvaluate ==
    /\ Len(recorded) < MaxRecorded
    /\ \E expr_str \in EvaluateRequests : ToolEvaluateOn(expr_str, evaluate(expr_str))
    /\ UNCHANGED <<text, pc, outcome, parserRuns, astVars, batchVars, args,
                   summary, ioVars>>

\* tools/call evaluate_batch
ToolEvaluateBatchOn(batch_results) ==
    /\ history' = record_results(history, batch_results)
    /\ recorded' = recorded \o Successes(batch_results)
    /\ records' = BatchResponse(batch_results)

ToolEvaluateBatch ==
    /\ Len(recorded) < MaxRecorded
    /\ \E exprs \in BatchRequests : ToolEvaluateBatchOn(evaluate_batch(map_from(JsonStrings(exprs))))
    /\ UNCHANGED <<text, pc, outcome, parserRuns, astVars, batchVars, args,
                   summary, ioVars>>

\* tools/call history
ToolHistory ==
    /\ records' = HistoryResponse(get_history(history))
    /\ UNCHANGED <<text, pc, outcome, parserRuns, astVars, batchVars, args,
                   history, recorded, summary, ioVars>>

NextHistory == ToolEvaluate \/ ToolEvaluateBatch \/ ToolHistory

SpecHistory == Init /\ [][NextHistory]_vars

\* ---------------- SpecPhase: a text parsed, evaluated, or evaluated as a batch
TypePhase == TypeChar(PhaseAlphabet, MaxPhase)

\* evaluate_batch on the text as the only expression of the batch
EvaluateBatchText ==
    /\ pc = "input"
    /\ batchA' = <<Expression_from(text)>>
    /\ resA' = evaluate_batch(batchA')
    /\ pc' = "batched"
    /\ UNCHANGED <<text, outcome, parserRuns, astVars, batchB, resB, toolVars>>

NextPhase == TypePhase \/ Evaluate \/ ParseExpression \/ EvaluateBatchText

SpecPhase == Init /\ [][NextPhase]_vars

\* ------------------------- SpecServer: the stdio server reading its lines
RequestIds == {1, 2}

NoArguments(kind, id, method, name) == Line(kind, id, method, name, <<>>, FALSE, <<>>)

\* the lines the server is given
ServerLines ==
    {NoArguments(k, 0, "", "") : k \in {"blank", "invalid", "other"}}
    \cup {NoArguments("request", id, "ping", "") : id \in RequestIds}
    \cup {NoArguments("request", 1, m, "") : m \in ListMethods}
    \cup {NoArguments("request", 1, "tools/call", n) :
             n \in {"history", "sqrt", "evaluate_batch"}}
    \cup {Line("request", id, "tools/call", "evaluate", e, FALSE, <<>>) :
             id \in RequestIds, e \in {<<"2", "+", "3">>, <<"5", "/", "0">>}}
    \cup {Line("request", id, "tools/call", "evaluate_batch", <<>>, TRUE, es) :
             id \in RequestIds,
             es \in {<<>>,
                      <<JsonString(<<"2", "+", "3">>), JsonString(<<"5", "/", "0">>),
                        JsonNumber, JsonString(<<"3", "*", "4">>)>>}}

\* the line handled: the state after it and the response written, if any.
\* When stdout does not take the response (write_all(..)? or flush()? fails)
\* main returns the error: the state has changed and nothing is written
Handled(line, r, written) ==
    /\ lines' = Append(lines, line)
    /\ history' = r.history
    /\ responses' = IF r.respond /\ written
                    THEN Append(responses, JSONRPCResponse(line.id, r.result))
                    ELSE responses
    /\ pc' = IF r.respond /\ ~written THEN "failed" ELSE "input"

\* a literal too large for f64: its value is inf
Overlong == <<"1">> \o [i \in 1..F64MaxDigits |-> "0"]

\* the first line read asks for such a literal
ReadOverlong ==
    /\ pc = "input"
    /\ lines = <<>>
    /\ \E id \in RequestIds, written \in BOOLEAN :
         Handled(Line("request", id, "tools/call", "evaluate", Overlong, FALSE, <<>>),
                 handle_line(history, Line("request", id, "tools/call", "evaluate",
                                           Overlong, FALSE, <<>>)),
                 written)
    /\ UNCHANGED <<text, outcome, parserRuns, astVars, batchVars,
                   args, records, recorded, summary, errors>>

\* for line in stdin.lock().lines(): one line read and handled
ReadLine ==
    /\ pc = "input"
    /\ Len(lines) < MaxLines
    /\ \E line \in ServerLines, written \in BOOLEAN :
         Handled(line, handle_line(history, line), written)
    /\ UNCHANGED <<text, outcome, parserRuns, astVars, batchVars,
                   args, records, recorded, summary, errors>>

\* a line of stdin that is not valid UTF-8
Unreadable == NoArguments("unreadable", 0, "", "")

\* let line = line?: the line read is not valid UTF-8 (lines() gives
\* Err(InvalidData)) and main returns the error: nothing is handled or
\* written, and the lines after it are never read
ReadError ==
    /\ pc = "input"
    /\ Len(lines) < MaxLines
    /\ lines' = Append(lines, Unreadable)
    /\ pc' = "failed"
    /\ UNCHANGED <<text, outcome, parserRuns, astVars, batchVars, args, records,
                   recorded, summary, errors, history, responses>>

\* the lines of stdin are over, main returns Ok(())
EndOfInput ==
    /\ pc = "input"
    /\ pc' = "exited"
    /\ UNCHANGED <<text, outcome, parserRuns, astVars, batchVars, toolVars>>

NextServer == ReadLine \/ ReadOverlong \/ ReadError \/ EndOfInput

SpecServer == Init /\ [][NextServer]_vars

\* --------------------------------------- SpecRepl: the REPL reading lines
ReplLines ==
    {Chars_help, Chars_history, Chars_clear, Chars_quit, Chars_exit,
     <<>>, <<" ">>, <<" ">> \o Chars_clear \o <<" ">>,
     <<"2", "+", "3">>, <<" ", "5", "/", "0", " ">>, <<"2", "+">>,
     <<"2", "+", "3", InvalidByte>>}

\* what a turn writes to stdout: what its arm prints and, when it leaves the
\* loop, the history asked for
TurnPrints(t, show_history) ==
    t.printed \o (IF t.stop THEN show(show_history, t.history) ELSE <<>>)

\* a turn writes something
Prints(t, show_history) == TurnPrints(t, show_history) # <<>> \/ t.errors # <<>>

\* a line read and matched, every print taken: the loop left on quit and exit
ReplDone(t, show_history) ==
    /\ history' = t.history
    /\ responses' = responses \o TurnPrints(t, show_history)
    /\ errors' = errors \o t.errors
    /\ pc' = IF t.stop THEN "exited" ELSE "input"

\* a print of the turn fails (println! and eprintln! panic): the process ends
\* with the lines printed before it out, nothing on stderr, and the history
\* as it was then
ReplPanic(t, show_history) ==
    /\ history' = t.before
    /\ \E n \in 0..Max(0, Len(TurnPrints(t, show_history)) - 1) :
         responses' = responses \o SubSeq(TurnPrints(t, show_history), 1, n)
    /\ errors' = errors
    /\ pc' = "failed"

\* one turn of the loop on a line read, its prints taken or not
ReplTurn(t, show_history, written) ==
    /\ IF written \/ ~Prints(t, show_history)
       THEN ReplDone(t, show_history)
       ELSE ReplPanic(t, show_history)
    /\ outcome' = IF t.calls = <<>> THEN outcome ELSE evaluate_call(t.calls[1]).value
    /\ parserRuns' = IF t.calls = <<>> THEN parserRuns
                     ELSE parserRuns + evaluate_call(t.calls[1]).parserRuns

ReplLine ==
    /\ pc = "input"
    /\ Len(lines) < MaxRepl
    /\ \E line \in ReplLines, show_history \in BOOLEAN, written \in BOOLEAN :
         /\ lines' = Append(lines, line)
         /\ ReplTurn(repl_next(history, line), show_history, written)
    /\ UNCHANGED <<text, astVars, batchVars, args, records, recorded, summary>>

\* print!("> ") and flush().unwrap() before a line is read: stdout does not
\* take the prompt and the process ends
PromptFails ==
    /\ pc = "input"
    /\ pc' = "failed"
    /\ UNCHANGED <<text, outcome, parserRuns, astVars, batchVars, toolVars>>

\* lines.next() gives None, the input is over: break, and the history is
\* printed when asked for, if stdout takes it
ReplEnd ==
    /\ pc = "input"
    /\ \E show_history \in BOOLEAN, written \in BOOLEAN :
         ReplTurn(Turn(history, <<>>, <<>>, TRUE), show_history, written)
    /\ UNCHANGED <<text, astVars, batchVars, args, records, recorded, summary, lines>>

NextRepl == ReplLine \/ PromptFails \/ ReplEnd

SpecRepl == Init /\ [][NextRepl]_vars

TypeOK == pc \in {"input", "evaluated", "parsed", "batched", "constructed", "converted", "printed", "reported", "exited", "failed"}

\* ================================================================ properties
\* Reading a text the way the grammar's description does, independently of
\* the parser: white space separates, a maximal run of digits and points is an
\* operand, every other character is a symbol of its own.
NumChars == Digits \cup {"."}

RECURSIVE RunEnd(_, _, _)
RunEnd(t, p, cs) == IF p <= Len(t) /\ t[p] \in cs THEN RunEnd(t, p + 1, cs) ELSE p

RECURSIVE TokensFrom(_, _)
TokensFrom(t, p) ==
    IF p > Len(t) THEN <<>>
    ELSE IF t[p] \in WHITESPACE THEN TokensFrom(t, p + 1)
    ELSE IF t[p] \in NumChars
    THEN LET e == RunEnd(t, p, NumChars)
         IN  <<[k |-> "num", s |-> SubSeq(t, p, e - 1)]>> \o TokensFrom(t, e)
    ELSE <<[k |-> "sym", s |-> <<t[p]>>]>> \o TokensFrom(t, p + 1)

Tokens(t) == TokensFrom(t, 1)

\* digit+ ('.' digit+)?
WellFormedLiteral(s) ==
    /\ s # <<>>
    /\ \A i \in 1..Len(s) : s[i] \in NumChars
    /\ Cardinality({i \in 1..Len(s) : s[i] = "."}) <= 1
    /\ s[1] # "." /\ s[Len(s)] # "."

IsNum(tok) == tok.k = "num" /\ WellFormedLiteral(tok.s)
IsSym(tok, cs) == tok.k = "sym" /\ tok.s[1] \in cs
Leaf(tok) == Number(ParseFloat(tok.s).val)

AddOps == {"+", "-"}
MulOps == {"*", "/"}

\* operand (op operand)* with every op taken from ops
IsChain(toks, ops) ==
    /\ Len(toks) % 2 = 1
    /\ \A i \in 1..Len(toks) :
         IF i % 2 = 1 THEN IsNum(toks[i]) ELSE IsSym(toks[i], ops)

\* the tree the claim describes: the last operator at the root, the last
\* operand to its right, the tree of the rest of the chain to its left
RECURSIVE LeftNested(_)
LeftNested(toks) ==
    IF Len(toks) = 1 THEN Leaf(toks[1])
    ELSE Binary(toks[Len(toks) - 1].s[1],
                LeftNested(SubSeq(toks, 1, Len(toks) - 2)),
                Leaf(toks[Len(toks)]))

\* C1: an unparenthesised chain of operands joined by operators of one
\* precedence level parses to the left-nested tree
C1_LeftAssociative ==
    (pc = "parsed" /\ (IsChain(Tokens(text), AddOps) \/ IsChain(Tokens(text), MulOps)))
        => outcome = Ok(LeftNested(Tokens(text)))

\* a chain of three operands joined by - or / has been parsed
C1_Witness ==
    /\ pc = "parsed"
    /\ Len(Tokens(text)) = 5
    /\ IsChain(Tokens(text), {"-"}) \/ IsChain(Tokens(text), {"/"})
    /\ IsOk(outcome)
    /\ outcome.val.left.tag \in {"Sub", "Div"}
    /\ outcome.val.right.tag = "Number"

\* no Add or Sub node is a child of a Mul or Div node
RECURSIVE NoAdditiveUnderMultiplicative(_)
NoAdditiveUnderMultiplicative(e) ==
    IF e.tag = "Number" THEN TRUE
    ELSE IF e.tag = "Neg" THEN NoAdditiveUnderMultiplicative(e.expr)
    ELSE /\ e.tag \in {"Mul", "Div"}
            => (e.left.tag \notin {"Add", "Sub"} /\ e.right.tag \notin {"Add", "Sub"})
         /\ NoAdditiveUnderMultiplicative(e.left)
         /\ NoAdditiveUnderMultiplicative(e.right)

\* tokens of the shape  operand o1 operand o2 operand  with o1, o2 as given
IsTriple(toks, ops1, ops2) ==
    /\ Len(toks) = 5
    /\ IsNum(toks[1]) /\ IsNum(toks[3]) /\ IsNum(toks[5])
    /\ IsSym(toks[2], ops1) /\ IsSym(toks[4], ops2)

\* C2: without parentheses every * and / groups its operands before any + or -:
\* a + b * c is Add(a, Mul(b, c)), a * b + c is Add(Mul(a, b), c), and no Add
\* or Sub node is a child of a Mul or Div node
C2_Precedence ==
    (pc = "parsed" /\ IsOk(outcome) /\ \A i \in 1..Len(text) : text[i] # "(")
        => LET toks == Tokens(text)
           IN  /\ NoAdditiveUnderMultiplicative(outcome.val)
               /\ IsTriple(toks, AddOps, MulOps)
                    => outcome.val = Binary(toks[2].s[1], Leaf(toks[1]),
                                        Binary(toks[4].s[1], Leaf(toks[3]), Leaf(toks[5])))
               /\ IsTriple(toks, MulOps, AddOps)
                    => outcome.val = Binary(toks[4].s[1],
                                        Binary(toks[2].s[1], Leaf(toks[1]), Leaf(toks[3])),
                                        Leaf(toks[5]))

\* a + b * c has been parsed, the product to the right of the sum
C2_Witness ==
    /\ pc = "parsed"
    /\ IsTriple(Tokens(text), {"+"}, {"*"})
    /\ IsOk(outcome)
    /\ outcome.val.tag = "Add"
    /\ outcome.val.right.tag = "Mul"

\* the text between the first and the last character
Inside(t) == SubSeq(t, 2, Len(t) - 1)

\* t is "(" inner ")" where inner is an expression of its own
IsWrapped(t) ==
    /\ Len(t) >= 3
    /\ t[1] = "(" /\ t[Len(t)] = ")"
    /\ IsOk(parse_expression(Inside(t)))

\* C3: a parenthesised sub-expression is one operand of the operator around it,
\* (a + b) * c is Mul(Add(a, b), c), and wrapping a valid expression in
\* parentheses, any number of times, gives the AST of the expression itself
C3_Parentheses ==
    pc = "parsed"
        => /\ IsWrapped(text) => outcome = parse_expression(Inside(text))
           /\ LET toks == Tokens(text)
              IN  (/\ Len(toks) = 7
                   /\ IsSym(toks[1], {"("}) /\ IsSym(toks[5], {")"})
                   /\ IsTriple(SubSeq(toks, 2, 4) \o SubSeq(toks, 6, 7), AddOps, MulOps))
                  => outcome = Ok(Binary(toks[6].s[1],
                                         Binary(toks[3].s[1], Leaf(toks[2]), Leaf(toks[4])),
                                         Leaf(toks[7])))

\* a sum wrapped twice has been parsed to the sum itself
C3_Witness ==
    /\ pc = "parsed"
    /\ IsWrapped(text) /\ IsWrapped(Inside(text))
    /\ IsOk(outcome) /\ outcome.val.tag = "Add"

\* the number of minus signs t starts with
RECURSIVE LeadingMinus(_)
LeadingMinus(t) ==
    IF t # <<>> /\ t[1] = "-" THEN 1 + LeadingMinus(Tail(t)) ELSE 0

\* t without the minus signs it starts with
Operand(t) == SubSeq(t, LeadingMinus(t) + 1, Len(t))

\* t is one operand: a number literal or a parenthesised expression
IsOperand(t) == WellFormedLiteral(t) \/ IsWrapped(t)

\* k Neg nodes around e
RECURSIVE NegNested(_, _)
NegNested(k, e) == IF k = 0 THEN e ELSE Neg(NegNested(k - 1, e))

\* C4: an operand preceded by k >= 1 minus signs parses to k nested Neg nodes
\* around the operand; its value is the operand's value negated when k is odd
\* and the operand's value when k is even
C4_UnaryStacking ==
    (LeadingMinus(text) >= 1 /\ IsOperand(Operand(text)))
        => /\ pc = "parsed"
                => outcome = Ok(NegNested(LeadingMinus(text),
                                          parse_expression(Operand(text)).val))
           /\ (pc = "evaluated" /\ IsOk(evaluate(Operand(text))))
                => outcome = IF LeadingMinus(text) % 2 = 1
                             THEN Ok(FNeg(evaluate(Operand(text)).val))
                             ELSE evaluate(Operand(text))

\* three minus signs before a literal have been evaluated to its negation
C4_Witness ==
    /\ pc = "evaluated"
    /\ LeadingMinus(text) = 3
    /\ WellFormedLiteral(Operand(text))
    /\ ~IsZero(ParseFloat(Operand(text)).val)
    /\ outcome = Ok(FNeg(ParseFloat(Operand(text)).val))

\* the result is a zero, +0.0 or -0.0
IsZeroValue(r) == IsOk(r) /\ IsZero(r.val)

\* C5: Div(n, d) evaluates to DivisionByZero whenever d evaluates to zero,
\* whatever the numerator n is; no number is returned
C5_DivisionByZero ==
    (/\ pc = "evaluated"
     /\ stack[1].tag = "Div"
     /\ IsZeroValue(eval_expr(stack[1].right)))
        => outcome = Err("DivisionByZero")

\* a division whose divisor is a computed zero, not a literal, was evaluated
C5_Witness ==
    /\ pc = "evaluated"
    /\ stack[1].tag = "Div"
    /\ stack[1].right.tag \in {"Sub", "Mul", "Neg"}
    /\ stack[1].left.tag # "Number"
    /\ IsZeroValue(eval_expr(stack[1].right))
    /\ outcome = Err("DivisionByZero")

\* C6: evaluate returns EmptyExpression for every text whose trimmed form is
\* empty, without running the parser
C6_EmptyBeforeParse ==
    (pc = "evaluated" /\ \A i \in 1..Len(text) : text[i] \in TrimSpace)
        => (outcome = Err("EmptyExpression") /\ parserRuns = 0)

\* a text of tabs, newlines or spaces only has been evaluated
C6_Witness ==
    /\ pc = "evaluated"
    /\ Len(text) >= 2
    /\ \A i \in 1..Len(text) : text[i] \in {" ", "\t", "\n"}
    /\ \E i \in 1..Len(text) : text[i] = "\t"
    /\ outcome = Err("EmptyExpression")
    /\ parserRuns = 0

\* what evaluate_expression gives for each text batches are filled from
Expected == [t \in BatchPool |-> evaluate_expression(Expression_from(t))]

\* C7: evaluate_batch returns a list of the length of its input in which
\* entry i carries the text of input i and the outcome of evaluating input i;
\* an empty input gives an empty output
C7_BatchOrder ==
    pc = "batched"
        => /\ Len(resA) = Len(batchA)
           /\ \A i \in 1..Len(resA) :
                /\ resA[i].expression = batchA[i]
                /\ resA[i].value = Expected[batchA[i]]
           /\ batchA = <<>> => resA = <<>>

\* a full batch of three different texts, the one with a value between the
\* failing ones, has been evaluated to three results in the order of the texts
C7_Witness ==
    /\ pc = "batched"
    /\ batchA = << <<"5", "/", "0">>, <<"2", "+", "3">>, <<"2", "+">> >>
    /\ Len(resA) = 3
    /\ resA[1].value = Err("DivisionByZero")
    /\ resA[2].value = Ok(F64(5))
    /\ resA[3].value = Err("ParseError")
    /\ \A i \in 1..3 : resA[i].expression = batchA[i]

IsFailure(r) == r.value.kind # "Ok"

\* C8: the outcome at index j depends only on the input at index j: two batches
\* with the same expression at j give the same outcome at j, and a failing
\* entry does not stop or change the evaluation of the entries after it
C8_BatchIsolation ==
    pc = "batched"
        => /\ \A j \in 1..Len(batchA) :
                (j <= Len(batchB) /\ batchA[j] = batchB[j])
                    => (/\ j <= Len(resA) /\ j <= Len(resB)
                        /\ resA[j].value = resB[j].value)
           /\ \A i \in 1..Len(resA) :
                IsFailure(resA[i])
                    => \A j \in (i + 1)..Len(batchA) :
                         /\ j <= Len(resA)
                         /\ resA[j].value = Expected[batchA[j]]

\* two batches that differ before index 3, one of them with failing entries
\* there, agree on the value at index 3
C8_Witness ==
    /\ pc = "batched"
    /\ Len(batchA) = 3 /\ Len(batchB) = 3
    /\ batchA[3] = batchB[3] /\ batchA[1] # batchB[1] /\ batchA[2] # batchB[2]
    /\ Len(resA) = 3 /\ Len(resB) = 3
    /\ IsFailure(resA[1]) /\ IsFailure(resA[2])
    /\ ~IsFailure(resB[1]) /\ ~IsFailure(resB[2])
    /\ resA[3].value = resB[3].value
    /\ IsOk(resA[3].value)

\* the characters the grammar has a use for
LegalChars == Digits \cup {".", "+", "-", "*", "/", "(", ")"} \cup WHITESPACE

\* the depth of parentheses after the first n tokens
RECURSIVE Depth(_, _)
Depth(toks, n) ==
    IF n = 0 THEN 0
    ELSE Depth(toks, n - 1)
         + (IF IsSym(toks[n], {"("}) THEN 1 ELSE IF IsSym(toks[n], {")"}) THEN -1 ELSE 0)

EndsOperand(tok) == tok.k = "num" \/ IsSym(tok, {")"})
StartsOperand(tok) == tok.k = "num" \/ IsSym(tok, {"("})

\* a character the grammar has no use for
HasUnknownChar(t) == \E i \in 1..Len(t) : t[i] \notin LegalChars

\* a closing parenthesis with no opening one before it, or an opening one
\* never closed
HasUnmatchedParen(toks) ==
    \/ \E n \in 1..Len(toks) : Depth(toks, n) < 0
    \/ Depth(toks, Len(toks)) # 0

HasEmptyParens(toks) ==
    \E i \in 1..(Len(toks) - 1) : IsSym(toks[i], {"("}) /\ IsSym(toks[i + 1], {")"})

\* two operands with no operator between them
HasAdjacentOperands(toks) ==
    \E i \in 1..(Len(toks) - 1) : EndsOperand(toks[i]) /\ StartsOperand(toks[i + 1])

\* a binary operator with nothing to its left (a minus there is a unary minus)
\* or with nothing to its right
HasMissingOperand(toks) ==
    \/ \E i \in 1..Len(toks) :
         /\ IsSym(toks[i], {"+", "*", "/"})
         /\ (i = 1 \/ IsSym(toks[i - 1], {"+", "-", "*", "/", "("}))
    \/ \E i \in 1..Len(toks) :
         /\ IsSym(toks[i], {"+", "-", "*", "/"})
         /\ (i = Len(toks) \/ IsSym(toks[i + 1], {"+", "*", "/", ")"}))

ViolatesGrammar(t) ==
    \/ HasUnknownChar(t)
    \/ HasUnmatchedParen(Tokens(t))
    \/ HasEmptyParens(Tokens(t))
    \/ HasAdjacentOperands(Tokens(t))
    \/ HasMissingOperand(Tokens(t))

\* C9: a text that is not empty and has a missing operand, an unmatched or
\* empty pair of parentheses, two operands with no operator between them or a
\* character the grammar has no use for gives ParseError, never a value
C9_GrammarViolations ==
    (pc = "evaluated" /\ ~TrimIsEmpty(text) /\ ViolatesGrammar(text))
        => outcome = Err("ParseError")

\* a text that is a valid expression followed by a second operand has been
\* rejected with ParseError
C9_Witness ==
    /\ pc = "evaluated"
    /\ HasAdjacentOperands(Tokens(text))
    /\ ~HasUnknownChar(text) /\ ~HasUnmatchedParen(Tokens(text))
    /\ ~HasMissingOperand(Tokens(text)) /\ ~HasEmptyParens(Tokens(text))
    /\ \E n \in 1..(Len(text) - 1) : IsOk(parse_expression(SubSeq(text, 1, n)))
    /\ outcome = Err("ParseError")

\* the maximal runs of characters of t that belong to no operator: the
\* literals of a text made of literals and minus signs
RECURSIVE LiteralsFrom(_, _)
LiteralsFrom(t, p) ==
    IF p > Len(t) THEN {}
    ELSE IF t[p] = "-" THEN LiteralsFrom(t, p + 1)
    ELSE LET e == RunEnd(t, p, LiteralAlphabet \ {"-"})
         IN  {SubSeq(t, p, e - 1)} \cup LiteralsFrom(t, e)

\* every Number leaf is zero or more
RECURSIVE NoNegativeLeaf(_)
NoNegativeLeaf(e) ==
    IF e.tag = "Number" THEN ~e.n.neg
    ELSE IF e.tag = "Neg" THEN NoNegativeLeaf(e.expr)
    ELSE NoNegativeLeaf(e.left) /\ NoNegativeLeaf(e.right)

\* C10: a number literal is accepted only in the shape digit+ ('.' digit+)?;
\* a text with a literal of any other shape gives an error, never a value; no
\* sign is part of a literal: a leading minus becomes a Neg node
C10_NumberShape ==
    /\ (pc \in {"evaluated", "parsed"} /\ IsOk(outcome))
         => \A lit \in LiteralsFrom(text, 1) : WellFormedLiteral(lit)
    /\ (pc = "parsed" /\ IsOk(outcome))
         => /\ NoNegativeLeaf(outcome.val)
            /\ (Len(text) >= 2 /\ text[1] = "-" /\ WellFormedLiteral(Tail(text)))
                 => outcome.val = Neg(Number(ParseFloat(Tail(text)).val))

\* a literal with a point and no digit after it, alone in the text, has been
\* rejected
C10_Witness ==
    /\ pc = "evaluated"
    /\ Len(text) >= 2
    /\ text[Len(text)] = "."
    /\ \A i \in 1..(Len(text) - 1) : text[i] \in Digits
    /\ outcome = Err("ParseError")

\* a text the grammar's description accepts, read from its tokens alone: at
\* least one token, every literal well formed, and none of the violations
Conforms(t) ==
    LET toks == Tokens(t)
    IN  /\ toks # <<>>
        /\ \A i \in 1..Len(toks) : toks[i].k = "num" => IsNum(toks[i])
        /\ ~HasUnknownChar(t)
        /\ ~HasUnmatchedParen(toks)
        /\ ~HasEmptyParens(toks)
        /\ ~HasAdjacentOperands(toks)
        /\ ~HasMissingOperand(toks)

\* the operands and operators of a tree from left to right, a Neg node as the
\* minus sign before its operand
OpSign(tag) ==
    CASE tag = "Add" -> "+" [] tag = "Sub" -> "-" [] tag = "Mul" -> "*" [] OTHER -> "/"

RECURSIVE Flatten(_)
Flatten(e) ==
    IF e.tag = "Number" THEN <<[num |-> e.n]>>
    ELSE IF e.tag = "Neg" THEN <<[op |-> "-"]>> \o Flatten(e.expr)
    ELSE Flatten(e.left) \o <<[op |-> OpSign(e.tag)]>> \o Flatten(e.right)

\* the operands (as values) and operators of a token list from left to right,
\* parentheses left out
RECURSIVE Content(_)
Content(toks) ==
    IF toks = <<>> THEN <<>>
    ELSE (IF IsSym(Head(toks), {"(", ")"}) THEN <<>>
          ELSE IF IsNum(Head(toks)) THEN <<[num |-> ParseFloat(Head(toks).s).val]>>
          ELSE IF Head(toks).k = "num" THEN <<[lit |-> Head(toks).s]>>
          ELSE <<[op |-> Head(toks).s[1]]>>)
         \o Content(Tail(toks))

\* C11: a text that conforms to the grammar parses, and exactly these do; the
\* tree of a parsed text holds every operand and operator of the text once and
\* in the order of the text, so nothing of the text is left unconsumed
C11_WholeInput ==
    pc = "parsed"
        => /\ IsOk(outcome) <=> Conforms(text)
           /\ IsOk(outcome) => Flatten(outcome.val) = Content(Tokens(text))

\* a text of three operands and two operators of different levels has been
\* parsed to a tree that holds all five
C11_Witness ==
    /\ pc = "parsed"
    /\ IsTriple(Tokens(text), MulOps, AddOps)
    /\ IsOk(outcome)
    /\ Len(Flatten(outcome.val)) = 5
    /\ Flatten(outcome.val) = Content(Tokens(text))

\* C12: Expression::new gives no value exactly for the texts made of white
\* space only (the empty text among them), and for every other text an
\* Expression whose as_str and Display are the text as given, its leading and
\* trailing white space kept
C12_NewVerbatim ==
    pc = "constructed"
        => /\ outcome = OptionNone <=> (\A i \in 1..Len(text) : text[i] \in TrimSpace)
           /\ outcome # OptionNone
                => /\ outcome.kind = "Some"
                   /\ as_str(outcome.val) = text
                   /\ Display(outcome.val) = text

\* an Expression was made of a text with white space before and after it
C12_Witness ==
    /\ pc = "constructed"
    /\ Len(text) >= 3
    /\ text[1] \in WHITESPACE /\ text[Len(text)] \in WHITESPACE
    /\ \E i \in 1..Len(text) : text[i] \notin TrimSpace
    /\ outcome = Some(text)
    /\ as_str(outcome.val) # Trim(text)

\* C13: no Expression has a text that is empty or white space only: neither
\* Expression::new nor Expression::from makes one, and parse_expression is
\* never handed one
C13_NeverBlank ==
    /\ (pc = "constructed" /\ outcome # OptionNone) => ~TrimIsEmpty(as_str(outcome.val))
    /\ pc = "converted" => ~TrimIsEmpty(as_str(outcome))
    /\ pc = "parsed" => ~TrimIsEmpty(text)

\* the text with every white-space character of the grammar taken out
Squeeze(t) == SelectSeq(t, LAMBDA c : c \notin WHITESPACE)

\* no white space of t stands inside a number literal: taking it out joins no
\* two tokens
SpaceBetweenTokens(t) == Tokens(t) = Tokens(Squeeze(t))

\* C14: white space between two tokens, before the first or after the last
\* changes nothing: the text evaluates and parses as it does with all its
\* white space taken out; white space inside a number literal makes two
\* operands of it and the text is rejected with ParseError
C14_Whitespace ==
    /\ (pc = "evaluated" /\ SpaceBetweenTokens(text)) => outcome = evaluate(Squeeze(text))
    /\ (pc = "parsed" /\ SpaceBetweenTokens(text))
         => outcome = parse_expression(Squeeze(text))
    /\ (pc \in {"evaluated", "parsed"} /\ ~SpaceBetweenTokens(text))
         => outcome = Err("ParseError")

\* a division with a tab and a newline around its operator has been
\* evaluated to the value it has without them
C14_Witness ==
    /\ pc = "evaluated"
    /\ Len(Tokens(text)) = 3
    /\ \E i, j \in 1..Len(text) : text[i] = "\t" /\ text[j] = "\n"
    /\ SpaceBetweenTokens(text)
    /\ IsOk(outcome)
    /\ outcome = evaluate(Squeeze(text))

\* C16: the text Expr::to_string makes of the tree of a valid input is
\* accepted by parse_expression, and evaluates to what the input evaluates to
C16_RoundTrip ==
    (pc = "printed" /\ IsOk(outcome))
        => /\ IsOk(parse_expression(outcome.val))
           /\ evaluate(outcome.val) = evaluate(text)

\* C17: the outcome evaluate_batch reports for a text is the outcome of
\* evaluate on that text alone
C17_BatchAsEvaluate ==
    pc = "batched"
        => \A i \in 1..Len(resA) : resA[i].value = evaluate(as_str(resA[i].expression))

\* C19: the batch command prints one record for each input, in the order of
\* the inputs, and the result in a record is the result of evaluating the
\* text in that record
C19_CliRecords ==
    pc = "reported"
        => \A i \in 1..Len(records) :
             /\ records[i].expression = args[i]
             /\ records[i].result = evaluate(records[i].expression)

\* tokens of the shape  - operand op operand
IsNegLeft(toks) ==
    /\ Len(toks) = 4
    /\ IsSym(toks[1], {"-"}) /\ IsNum(toks[2])
    /\ IsSym(toks[3], AddOps \cup MulOps) /\ IsNum(toks[4])

\* tokens of the shape  operand op - operand
IsNegRight(toks) ==
    /\ Len(toks) = 4
    /\ IsNum(toks[1]) /\ IsSym(toks[2], AddOps \cup MulOps)
    /\ IsSym(toks[3], {"-"}) /\ IsNum(toks[4])

\* C18: a unary minus takes the operand right after it and nothing more:
\* -a op b is op(Neg(a), b) for every binary operator, and a op -b is
\* op(a, Neg(b)), the minus accepted right after the operator
C18_UnaryBinding ==
    pc = "parsed"
        => LET toks == Tokens(text)
           IN  /\ IsNegLeft(toks)
                    => outcome = Ok(Binary(toks[3].s[1], Neg(Leaf(toks[2])), Leaf(toks[4])))
               /\ IsNegRight(toks)
                    => outcome = Ok(Binary(toks[2].s[1], Leaf(toks[1]), Neg(Leaf(toks[4]))))

\* -a * b has been parsed to a product whose left operand is Neg(a)
C18_Witness ==
    /\ pc = "parsed"
    /\ IsNegLeft(Tokens(text))
    /\ IsSym(Tokens(text)[3], {"*"})
    /\ IsOk(outcome)
    /\ outcome.val.tag = "Mul"
    /\ outcome.val.left.tag = "Neg"

\* the last n entries of a sequence
LastOf(s, n) == SubSeq(s, Len(s) - Min(n, Len(s)) + 1, Len(s))

\* C20: the history of the stdio server never holds more than 100 entries,
\* and they are the last calculations recorded, oldest first: the entry that
\* goes when the 101st comes is the oldest one
C20_HistoryWindow ==
    /\ Len(history) <= HistoryCap
    /\ history = LastOf(recorded, HistoryCap)

\* more than 100 calculations have been recorded: the history holds 100, the
\* oldest two are gone and the newest is its last entry
C20_Witness ==
    /\ Len(recorded) = HistoryCap + 2
    /\ Len(history) = HistoryCap
    /\ history[1] = recorded[3]
    /\ history[1] # recorded[1]
    /\ history[HistoryCap] = recorded[Len(recorded)]

\* a literal followed by an exponent: digit+ ('.' digit+)? 'e' digit+
IsExponentLiteral(t) ==
    \E e \in 2..(Len(t) - 1) :
        /\ t[e] = "e"
        /\ WellFormedLiteral(SubSeq(t, 1, e - 1))
        /\ \A i \in (e + 1)..Len(t) : t[i] \in Digits

\* C21 as claimed: a literal with an exponent evaluates, 1e10 to 10000000000
C21_ExponentAccepted ==
    (pc = "evaluated" /\ IsExponentLiteral(text))
        => /\ IsOk(outcome)
           /\ text = <<"1", "e", "1", "0">>
                => outcome.val = ParseFloat(<<"1", "0", "0", "0", "0", "0", "0", "0",
                                              "0", "0", "0">>).val

\* some Div node of e has a divisor that evaluates to zero
RECURSIVE HasZeroDivisor(_)
HasZeroDivisor(e) ==
    IF e.tag = "Number" THEN FALSE
    ELSE IF e.tag = "Neg" THEN HasZeroDivisor(e.expr)
    ELSE \/ e.tag = "Div" /\ IsZeroValue(eval_expr(e.right))
         \/ HasZeroDivisor(e.left)
         \/ HasZeroDivisor(e.right)

\* C22: a Div node with a zero divisor anywhere in the tree makes eval_expr
\* of the whole tree DivisionByZero, whatever operators enclose the node
C22_ErrorsPropagate ==
    (pc = "evaluated" /\ HasZeroDivisor(stack[1]))
        => outcome = Err("DivisionByZero")

\* 0 * (n / 0) or (n / 0) - (m / 0) was evaluated to DivisionByZero
C22_Witness ==
    /\ pc = "evaluated"
    /\ outcome = Err("DivisionByZero")
    /\ \/ /\ stack[1].tag = "Mul"
          /\ stack[1].left = Number(Zero)
          /\ stack[1].right.tag = "Div"
          /\ stack[1].right.right = Number(Zero)
       \/ /\ stack[1].tag = "Sub"
          /\ stack[1].left.tag = "Div"
          /\ stack[1].left.right = Number(Zero)
          /\ stack[1].right.tag = "Div"
          /\ stack[1].right.right = Number(Zero)

\* C23: the error kind follows the order empty check, parse, evaluation: a
\* blank text is EmptyExpression, a text that violates the grammar is
\* ParseError whatever divisions by zero it holds, and DivisionByZero comes
\* only from a text that conforms as a whole
C23_PhaseOrder ==
    pc = "evaluated"
        => /\ TrimIsEmpty(text) => outcome = Err("EmptyExpression")
           /\ (~TrimIsEmpty(text) /\ ~Conforms(text)) => outcome = Err("ParseError")
           /\ outcome = Err("DivisionByZero") => Conforms(text)

\* a malformed text with 1/0 in it has been evaluated to ParseError
C23_Witness ==
    /\ pc = "evaluated"
    /\ outcome = Err("ParseError")
    /\ \E i \in 1..(Len(text) - 2) : SubSeq(text, i, i + 2) = <<"1", "/", "0">>

\* C24: no text makes parse_expression, evaluate or evaluate_batch return
\* InvalidStructure
C24_NoInvalidStructure ==
    /\ outcome # Err("InvalidStructure")
    /\ \A i \in 1..Len(resA) : resA[i].value # Err("InvalidStructure")

\* a text with a unary minus before a parenthesised primary that holds a
\* unary minus and its operand has been walked into a tree
C24_Witness ==
    /\ pc = "parsed"
    /\ text = <<"-", "(", "-", "1", ")">>
    /\ outcome = Ok(Neg(Neg(Number(F64(1)))))

\* C25: on a text that parse_expression accepts, evaluate returns what
\* eval_expr returns on the tree, a value or DivisionByZero; on a text that
\* parse_expression rejects, evaluate fails
C25_EvaluateIsEvalOfParse ==
    pc = "evaluated"
        => /\ IsOk(parse_expression(text))
                => /\ outcome = eval_expr(parse_expression(text).val)
                   /\ IsOk(outcome) \/ outcome = Err("DivisionByZero")
           /\ ~IsOk(parse_expression(text)) => ~IsOk(outcome)

\* a text that starts with white space and parses has been evaluated to
\* DivisionByZero
C25_Witness ==
    /\ pc = "evaluated"
    /\ text # <<>> /\ text[1] = " "
    /\ IsOk(parse_expression(text))
    /\ outcome = Err("DivisionByZero")

\* C28: the total of the summary the batch command prints (in the Json and
\* the Pretty format) is successful + failed and is the number of records
\* printed, blank strings among the inputs or not
C28_SummaryTotal ==
    (pc = "reported" /\ summary # None)
        => /\ summary.total = summary.successful + summary.failed
           /\ summary.total = Len(records)

\* C30: the text Expr::to_string prints for the tree of an input parses to
\* that same tree
C30_PrintedParsesBack ==
    (pc = "printed" /\ IsOk(outcome))
        => parse_expression(outcome.val) = parse_expression(text)

\* what evaluate gives for the texts the lines of the server carry
ServerTexts == {<<"2", "+", "3">>, <<"5", "/", "0">>, <<"3", "*", "4">>, Overlong}
Evaluated == [t \in ServerTexts |-> evaluate(t)]

\* the calculations a line asks for that succeed, in the order asked
Calculation(expr, r) == IF IsOk(r) THEN <<<<expr, r.val>>>> ELSE <<>>

\* of the values of an array the strings count, the others are no expressions
RECURSIVE Succeeding(_)
Succeeding(values) ==
    IF values = <<>> THEN <<>>
    ELSE (IF Head(values).json = "string"
          THEN Calculation(Head(values).str, Evaluated[Head(values).str])
          ELSE <<>>)
         \o Succeeding(Tail(values))

Calculations(line) ==
    IF line.kind = "request" /\ line.method = "tools/call" /\ line.name = "evaluate"
    THEN Calculation(line.expression, Evaluated[line.expression])
    ELSE IF /\ line.kind = "request" /\ line.method = "tools/call"
            /\ line.name = "evaluate_batch" /\ line.is_array
    THEN Succeeding(line.expressions)
    ELSE <<>>

\* C26: a step of the stdio server changes the history only by the successful
\* calculations of the line it handled, appended in the order asked: one for
\* an evaluate that succeeds, one per successful entry of an evaluate_batch,
\* none for a failure, the history tool, an unknown tool or any other line
C26_HistoryFrame ==
    [][IF Len(lines') = Len(lines) + 1
       THEN history' = LastOf(history \o Calculations(lines'[Len(lines')]), HistoryCap)
       ELSE history' = history]_vars

\* a failing evaluate, a batch with a failure and a value that is no string
\* between two successes, and the call of an unknown tool have been handled
C26_Witness ==
    /\ Len(lines) = 3
    /\ lines[1].name = "evaluate" /\ lines[1].expression = <<"5", "/", "0">>
    /\ lines[2].name = "evaluate_batch"
    /\ lines[2].expressions = <<JsonString(<<"2", "+", "3">>),
                                JsonString(<<"5", "/", "0">>), JsonNumber,
                                JsonString(<<"3", "*", "4">>)>>
    /\ lines[3].name = "sqrt"
    /\ history = <<<<<<"2", "+", "3">>, F64(5)>>, <<<<"3", "*", "4">>, F64(12)>>>>

\* the ids of the requests that are answered, in the order read
AnsweredMethods == ListMethods \cup {"tools/call"}

RECURSIVE AnsweredIds(_)
AnsweredIds(ls) ==
    IF ls = <<>> THEN <<>>
    ELSE (IF Head(ls).kind = "request" /\ Head(ls).method \in AnsweredMethods
          THEN <<Head(ls).id>>
          ELSE <<>>)
         \o AnsweredIds(Tail(ls))

ResponseIds == [i \in 1..Len(responses) |-> responses[i].id]

\* C27 as claimed: the responses written are one for each request read whose
\* method is initialize, tools/list, resources/list, prompts/list or
\* tools/call, with the request's id and in the order read; no other line is
\* answered, and no line read, a request or not, ends the loop
C27_OneResponsePerRequest ==
    /\ [](AnsweredIds(lines) = ResponseIds)
    /\ [][Len(lines') = Len(lines) + 1 => pc' = "input"]_vars

\* the lines of the REPL that are commands, or blank
NotEvaluated == {Chars_help, Chars_history, Chars_clear, Chars_quit, Chars_exit, <<>>}

\* the line a step of the REPL has read
LineRead == Trim(lines'[Len(lines')])

\* a turn on a command or a blank line runs no evaluation and adds nothing to
\* the history, which clear empties; on every other line it appends the
\* trimmed line with its value or its error as the last entry
TurnTaken ==
    /\ LineRead \in NotEvaluated
         => /\ outcome' = outcome /\ parserRuns' = parserRuns
            /\ history' = IF LineRead = Chars_clear THEN <<>> ELSE history
    /\ LineRead \notin NotEvaluated
         => /\ parserRuns' = parserRuns + 1
            /\ history' = Append(history, <<LineRead, evaluate(LineRead)>>)

\* C29 as claimed: a turn of the REPL on a command or a blank line runs no
\* evaluation and adds nothing to the history, which clear empties; on every
\* other line it appends the trimmed line with its value or its error as the
\* last entry; the loop ends on quit and exit and on no other line, or when
\* the input is over
C29_ReplTurns ==
    [][IF Len(lines') = Len(lines) + 1
       THEN /\ TurnTaken
            /\ pc' = "exited" <=> LineRead \in {Chars_quit, Chars_exit}
            /\ pc' # "failed"
       ELSE history' = history /\ pc' = "exited"]_vars
====
